---- MODULE Spec2Model ----
(***************************************************************************)
(* Model of the persistent search index of Mio_v3/src/core/finder.py: the  *)
(* Librarian worker thread (queue, tree walk, batched upserts, startup     *)
(* prune), the callers that enqueue roots and query the index, and the     *)
(* filesystem they look at; and of its search side: parse_query, the       *)
(* scorer, search_generator (index phase, disk phase), find_path_ranked,   *)
(* find_path and the SearchMemory of learned selections.                   *)
(*                                                                         *)
(* Python strings are sequences of one-character strings, so that lower(), *)
(* splitext() and join() are computed and not assumed.                     *)
(***************************************************************************)
EXTENDS Integers, Sequences, FiniteSets, TLC

(***************************************************************************)
(* Configuration (finder.py lines 22-46).  The two size constants are      *)
(* scaled down together: the batch is flushed when it holds more than      *)
(* BATCH_LIMIT rows, and, as in the source (100000 and 2000), the cap is   *)
(* not a multiple of the flush size, so rows are pending when it is hit.   *)
(***************************************************************************)
MAX_INDEX_ITEMS == 3

BATCH_LIMIT == 1

CHUNK_SIZE == 1

FILE_TYPES ==
    [ image |-> { <<".","j","p","g">>, <<".","j","p","e","g">>, <<".","p","n","g">>,
                  <<".","g","i","f">>, <<".","b","m","p">>, <<".","s","v","g">>,
                  <<".","w","e","b","p">>, <<".","i","c","o">>, <<".","t","i","f","f">> },
      video |-> { <<".","m","p","4">>, <<".","m","k","v">>, <<".","a","v","i">>,
                  <<".","m","o","v">>, <<".","w","e","b","m">>, <<".","f","l","v">>,
                  <<".","m","4","v">> },
      audio |-> { <<".","m","p","3">>, <<".","w","a","v">>, <<".","a","a","c">>,
                  <<".","f","l","a","c">>, <<".","o","g","g">>, <<".","m","4","a">>,
                  <<".","w","m","a">> },
      code |-> { <<".","p","y">>, <<".","j","s">>, <<".","h","t","m","l">>,
                  <<".","c","s","s">>, <<".","j","a","v","a">>, <<".","c","p","p">>,
                  <<".","r","s">>, <<".","g","o">>, <<".","t","s">>,
                  <<".","j","s","o","n">>, <<".","s","q","l">>, <<".","s","h">>,
                  <<".","m","d">>, <<".","y","m","l">>, <<".","t","o","m","l">>,
                  <<".","b","a","t">>, <<".","p","s","1">> },
      doc |-> { <<".","p","d","f">>, <<".","d","o","c","x">>, <<".","d","o","c">>,
                  <<".","t","x","t">>, <<".","r","t","f">>, <<".","x","l","s","x">>,
                  <<".","p","p","t","x">>, <<".","c","s","v">>, <<".","l","o","g">>,
                  <<".","m","s","g">>, <<".","o","d","t">> } ]

Categories == {"image", "video", "audio", "code", "doc"}

\* EXT_TO_CATEGORY.get(ext, "other")
EXT_TO_CATEGORY(ext) ==
    IF \E c \in Categories : ext \in FILE_TYPES[c]
    THEN CHOOSE c \in Categories : ext \in FILE_TYPES[c]
    ELSE "other"

GLOBAL_EXCLUDES ==
    { <<"a","p","p","d","a","t","a">>, <<"a","p","p","l","i","c","a","t","i","o","n"," ","d","a","t","a">>,
      <<"w","i","n","d","o","w","s">>, <<"p","r","o","g","r","a","m"," ","f","i","l","e","s">>,
      <<"l","i","b","r","a","r","y">>, <<"s","y","s","t","e","m">>,
      <<"n","o","d","e","_","m","o","d","u","l","e","s">>, <<"v","e","n","v">>,
      <<".","g","i","t">>, <<"_","_","p","y","c","a","c","h","e","_","_">>,
      <<"t","e","m","p">>, <<"t","m","p">>,
      <<"c","a","c","h","e">>, <<"$","r","e","c","y","c","l","e",".","b","i","n">>,
      <<"o","n","e","d","r","i","v","e","t","e","m","p">>, <<".","v","s","c","o","d","e">>,
      <<".","i","d","e","a">>, <<"a","n","d","r","o","i","d">>,
      <<"b","u","i","l","d">>, <<"d","i","s","t">>,
      <<"t","a","r","g","e","t">>, <<"v","e","n","d","o","r">>,
      <<"o","b","j">>, <<"b","i","n">>,
      <<"d","e","b","u","g">>, <<"r","e","l","e","a","s","e">> }

(***************************************************************************)
(* String helpers: str.lower, str.startswith, os.path.splitext,            *)
(* os.path.join.                                                           *)
(***************************************************************************)
UpperChars == <<"A","B","C","D","E","F","G","H","I","J","K","L","M",
                "N","O","P","Q","R","S","T","U","V","W","X","Y","Z">>

LowerChars == <<"a","b","c","d","e","f","g","h","i","j","k","l","m",
                "n","o","p","q","r","s","t","u","v","w","x","y","z">>

lower_char(c) ==
    IF \E i \in 1..Len(UpperChars) : UpperChars[i] = c
    THEN LowerChars[CHOOSE i \in 1..Len(UpperChars) : UpperChars[i] = c]
    ELSE c

lower(s) == [i \in 1..Len(s) |-> lower_char(s[i])]

startswith(s, c) == Len(s) > 0 /\ s[1] = c

\* index of the last "." of s, 0 when there is none
LastDot(s) ==
    IF \E i \in 1..Len(s) : s[i] = "."
    THEN CHOOSE i \in 1..Len(s) : s[i] = "." /\ \A j \in (i+1)..Len(s) : s[j] # "."
    ELSE 0

\* os.path.splitext(f)[1]: from the last dot on, unless only dots precede it
splitext_ext(f) ==
    LET d == LastDot(f) IN
    IF d > 0 /\ \E j \in 1..(d-1) : f[j] # "."
    THEN SubSeq(f, d, Len(f))
    ELSE <<>>

path_join(dir, name) == dir \o <<"/">> \o name

(***************************************************************************)
(* The filesystem the program looks at: two roots that callers enqueue.    *)
(* A holds more files than the cap and a directory whose lower-cased name  *)
(* is excluded; B holds one file and a sub-directory.                      *)
(***************************************************************************)
RootA == <<"A">>

RootB == <<"B">>

Roots == {RootA, RootB}

DirTmp == path_join(RootA, <<"T","m","p">>)

DirOld == path_join(RootB, <<"o","l","d">>)

\* the file names a directory listing yields, in listing order
ListFiles(d) ==
    CASE d = RootA  -> << <<"a",".","P","Y">>, <<"b",".","t","x","t">>,
                          <<"c">>, <<"d",".","x","y","z">> >>
      [] d = DirTmp -> << <<"e",".","m","d">> >>
      [] d = RootB  -> << <<"f",".","p","n","g">> >>
      [] d = DirOld -> << <<"g",".","m","p","3">> >>
      [] OTHER      -> << >>

\* the sub-directory names a directory listing yields
ListDirs(d) ==
    CASE d = RootA -> << <<"T","m","p">> >>
      [] d = RootB -> << <<"o","l","d">> >>
      [] OTHER     -> << >>

Dirs == {RootA, DirTmp, RootB, DirOld}

PathsIn(d) == [i \in 1..Len(ListFiles(d)) |-> path_join(d, ListFiles(d)[i])]

\* every file path of the model, in the order a SELECT returns them
PathOrder == PathsIn(RootA) \o PathsIn(DirTmp) \o PathsIn(RootB) \o PathsIn(DirOld)

FilePaths == {PathOrder[i] : i \in 1..Len(PathOrder)}

Stat1 == [exists |-> TRUE, st_size |-> 1, st_mtime |-> 1]

Stat2 == [exists |-> TRUE, st_size |-> 2, st_mtime |-> 2]

Absent == [exists |-> FALSE, st_size |-> 0, st_mtime |-> 0]

FileStats == {Stat1, Stat2}

(***************************************************************************)
(* Bounds of the model.                                                    *)
(***************************************************************************)
MaxEnqueues == 2

\* changes of the disk and injected errors, together
MaxDisturbances == 1

(***************************************************************************)
(* State.                                                                  *)
(***************************************************************************)
VARIABLES
    fs,              \* the disk: file path -> stat record, or Absent
    files,           \* the rows of table "files", as the connection sees them
    indexing_queue,  \* Librarian.indexing_queue
    is_ready,        \* Librarian.is_ready
    lock,            \* holder of Librarian.lock: "none", "worker" or "caller"
    pc,              \* position of the worker thread and of the caller thread
    root_path,       \* _scan_and_index: its argument (<<>> outside a scan)
    walk,            \* os.walk: directories still to be yielded
    cur_dir,         \* _scan_and_index: root of the current os.walk triple
    todo,            \* _scan_and_index: files of the current triple not yet visited
    batch,           \* _scan_and_index: batch
    count,           \* _scan_and_index: count
    paths,           \* _prune_dead_files: paths not yet checked
    dead_paths,      \* _prune_dead_files: dead_paths
    ret,             \* what query() returned to the caller, until its next call
    status,          \* what get_status() counted, until the caller's next call (-1: nothing)
    enq,             \* history: number of index_path(r) calls, per root
    scans,           \* history: number of scans begun, per root
    scanlog,         \* history: how the last scan of a root ended, "none" once the disk changed
    cur_scan,        \* history: the current scan: "idle", "clean", "changed" (the disk changed) or "failed"
    gone,            \* history: indexed paths absent from disk since the prune pass began
    pruned,          \* history: "no", "running", "ok" (ran to completion) or "failed"
    nFs,             \* history: number of changes made to the disk
    nFaults          \* history: number of store / traversal errors injected

worker_vars == <<root_path, walk, cur_dir, todo, batch, count>>

prune_vars == <<paths, dead_paths>>

caller_vars == <<ret, status>>

hist_vars == <<enq, scans, scanlog, cur_scan, gone, pruned, nFs, nFaults>>

(***************************************************************************)
(* State of the search side: the SearchMemory instance, its history file   *)
(* and the one caller that runs find_path_ranked / find_path /             *)
(* learn_selection.                                                        *)
(***************************************************************************)
VARIABLES
    history,         \* SearchMemory.history: normalized query -> path
    history_file,    \* data/search_history.json as it is on disk
    spc,             \* position of the search caller
    call,            \* the arguments of the call in progress
    filters,         \* search_generator: q, the filters parse_query returned
    start_time,      \* search_generator: start_time
    now,             \* time.time()
    seen_paths,      \* search_generator: seen_paths
    matches,         \* find_path_ranked: matches, in the order they were yielded
    p_dirs,          \* Phase 2: priority directories not yet opened
    entries,         \* Phase 2: entries of the open directory not yet visited
    result,          \* what the call returned, until the caller's next call
    did,             \* history: the stages the call in progress went through
    nLearn           \* history: number of learn_selection calls

search_vars == <<history, history_file, spc, call, filters, start_time, now, seen_paths,
                 matches, p_dirs, entries, result, did, nLearn>>

\* the history file: absent, unreadable, or a JSON object
NoFile == [present |-> FALSE, valid |-> FALSE, data |-> << >>]

\* lines 200-204: SearchMemory.load
load(f) == IF f.present /\ f.valid THEN f.data ELSE << >>

NoCall == [fn |-> "none", target |-> << >>, item_type |-> "", limit |-> 0,
           fuzzy |-> FALSE, timeout |-> 0]

\* no query has been parsed
NoFilters == [parsed |-> FALSE, raised |-> FALSE]

\* the epoch second at which the program is started
StartOfRun == 17 * 100000000

\* lines 195-198, 221: memory = SearchMemory(); no search has been made yet
SearchConstructed(f) ==
    /\ history_file = f
    /\ history = load(f)
    /\ spc = "idle"
    /\ call = NoCall
    /\ filters = NoFilters
    /\ start_time = 0
    /\ now = StartOfRun
    /\ seen_paths = {}
    /\ matches = << >>
    /\ p_dirs = << >>
    /\ entries = << >>
    /\ result = [kind |-> "none"]
    /\ did = {}
    /\ nLearn = 0

vars == <<fs, files, indexing_queue, is_ready, lock, pc,
          worker_vars, prune_vars, caller_vars, hist_vars, search_vars>>

(***************************************************************************)
(* The table.                                                              *)
(***************************************************************************)
\* the tuple _scan_and_index appends to the batch (lines 120-126)
MakeRow(dir, f, st) ==
    LET ext == lower(splitext_ext(f)) IN
    [path |-> path_join(dir, f), name |-> f, ext |-> ext,
     category |-> EXT_TO_CATEGORY(ext),
     size |-> st.st_size, mtime |-> st.st_mtime, lower_name |-> lower(f)]

\* INSERT without OR REPLACE and without the primary key
InsertPlain(tbl, row) == tbl \cup {row}

\* INSERT OR REPLACE INTO files: path is the PRIMARY KEY
InsertOrReplace(tbl, row) == {r \in tbl : r.path # row.path} \cup {row}

\* the table emptied before the rows are inserted
ExecuteManyTruncate(tbl, rows, n) == {rows[i] : i \in 1..n}

\* executemany over the first n rows of a batch
RECURSIVE ExecuteMany(_, _, _)
ExecuteMany(tbl, rows, n) ==
    IF n = 0 THEN tbl
    ELSE InsertOrReplace(ExecuteMany(tbl, rows, n - 1), rows[n])

\* DELETE FROM files WHERE path IN (chunk)
DeleteIn(tbl, chunk) ==
    {r \in tbl : \A i \in 1..Len(chunk) : chunk[i] # r.path}

\* SELECT path FROM files
SelectPaths(tbl) ==
    SelectSeq(PathOrder, LAMBDA p : \E r \in tbl : r.path = p)

\* the index a previous run of the program left in data/search_index.db
OldRows ==
    { MakeRow(RootA, ListFiles(RootA)[1], Stat1),
      MakeRow(RootB, ListFiles(RootB)[1], Stat1),
      MakeRow(DirOld, ListFiles(DirOld)[1], Stat1) }

Init ==
    /\ fs = [p \in FilePaths |->
               IF p = path_join(DirOld, ListFiles(DirOld)[1]) THEN Absent ELSE Stat1]
    /\ files \in {{}, OldRows}
    /\ indexing_queue = << >>
    /\ is_ready = FALSE
    /\ lock = "none"
    /\ pc = [worker |-> "start", caller |-> "idle"]
    /\ root_path = << >>
    /\ walk = << >>
    /\ cur_dir = << >>
    /\ todo = << >>
    /\ batch = << >>
    /\ count = 0
    /\ paths = << >>
    /\ dead_paths = << >>
    /\ ret = {}
    /\ status = -1
    /\ enq = [r \in Roots |-> 0]
    /\ scans = [r \in Roots |-> 0]
    /\ scanlog = [r \in Roots |-> "none"]
    /\ cur_scan = "idle"
    /\ gone = {}
    /\ pruned = "no"
    /\ nFs = 0
    /\ nFaults = 0
    /\ SearchConstructed(NoFile)

EnqTotal == enq[RootA] + enq[RootB]

(***************************************************************************)
(* Exceptions.  A store error (sqlite3.Error out of execute, executemany   *)
(* or commit) or a traversal error raised inside a try block lands in its  *)
(* handler; "with self.lock" releases the lock on the way out.             *)
(***************************************************************************)
\* no handler: only queue.Empty is caught in run, so the thread ends
exception_uncaught(site) == "dead"

\* where the worker continues after an exception raised at pc = site
exception_target(site) ==
    CASE site \in {"walk", "file", "wb_exec", "fin_exec"} -> "scan_done" \* except: pass, line 135
      [] site \in {"prune_select", "prune_delete"}        -> "get"       \* except: pass, line 163
      [] OTHER                                            -> "dead"

(***************************************************************************)
(* queue.Queue() (line 67): maxsize 0, so put() never waits for a slot.    *)
(***************************************************************************)
QUEUE_MAXSIZE == 0

PutBlocks(q) == QUEUE_MAXSIZE > 0 /\ Len(q) >= QUEUE_MAXSIZE

\* index_path guarded by the store lock
index_path_waits_locked == lock # "none" \/ PutBlocks(indexing_queue)

\* what index_path (line 90) can wait for: the put, and no lock
index_path_waits == PutBlocks(indexing_queue)

(***************************************************************************)
(* Librarian.run, lines 92-105.                                            *)
(***************************************************************************)
\* line 95-96: random.random() < 0.2
StartupPrune ==
    /\ pc.worker = "start"
    /\ pc' = [pc EXCEPT !.worker = "prune_lock"]
    /\ pruned' = "running"
    /\ gone' = {p \in FilePaths : (\E r \in files : r.path = p) /\ ~fs[p].exists}
    /\ UNCHANGED search_vars
    /\ UNCHANGED <<fs, files, indexing_queue, is_ready, lock, worker_vars, prune_vars,
                   caller_vars, enq, scans, scanlog, cur_scan, nFs, nFaults>>

SkipPrune ==
    /\ pc.worker = "start"
    /\ pc' = [pc EXCEPT !.worker = "get"]
    /\ UNCHANGED search_vars
    /\ UNCHANGED <<fs, files, indexing_queue, is_ready, lock, worker_vars, prune_vars,
                   caller_vars, hist_vars>>

\* line 100 peeking at the queue and leaving the root in it
DequeueKeep ==
    /\ pc.worker = "get"
    /\ indexing_queue # << >>
    /\ root_path' = Head(indexing_queue)
    /\ indexing_queue' = indexing_queue
    /\ walk' = << Head(indexing_queue) >>
    /\ batch' = << >>
    /\ count' = 0
    /\ pc' = [pc EXCEPT !.worker = "walk"]
    /\ scans' = [scans EXCEPT ![Head(indexing_queue)] = @ + 1]
    /\ cur_scan' = "clean"
    /\ UNCHANGED search_vars
    /\ UNCHANGED <<fs, files, is_ready, lock, cur_dir, todo, prune_vars, caller_vars,
                   enq, scanlog, gone, pruned, nFs, nFaults>>

\* get() returns the newest root of the queue
DequeueNewest ==
    /\ pc.worker = "get"
    /\ indexing_queue # << >>
    /\ root_path' = indexing_queue[Len(indexing_queue)]
    /\ indexing_queue' = SubSeq(indexing_queue, 1, Len(indexing_queue) - 1)
    /\ walk' = << indexing_queue[Len(indexing_queue)] >>
    /\ batch' = << >>
    /\ count' = 0
    /\ pc' = [pc EXCEPT !.worker = "walk"]
    /\ scans' = [scans EXCEPT ![indexing_queue[Len(indexing_queue)]] = @ + 1]
    /\ cur_scan' = "clean"
    /\ UNCHANGED search_vars
    /\ UNCHANGED <<fs, files, is_ready, lock, cur_dir, todo, prune_vars, caller_vars,
                   enq, scanlog, gone, pruned, nFs, nFaults>>

\* line 100-101: get() returns the oldest root; _scan_and_index starts (lines 108-111)
Dequeue ==
    /\ pc.worker = "get"
    /\ indexing_queue # << >>
    /\ root_path' = Head(indexing_queue)
    /\ indexing_queue' = Tail(indexing_queue)
    /\ walk' = << Head(indexing_queue) >>
    /\ batch' = << >>
    /\ count' = 0
    /\ pc' = [pc EXCEPT !.worker = "walk"]
    /\ scans' = [scans EXCEPT ![Head(indexing_queue)] = @ + 1]
    /\ cur_scan' = "clean"
    /\ UNCHANGED search_vars
    /\ UNCHANGED <<fs, files, is_ready, lock, cur_dir, todo, prune_vars, caller_vars,
                   enq, scanlog, gone, pruned, nFs, nFaults>>

\* line 103 without line 104
QueueEmptyNoReady ==
    /\ pc.worker = "get"
    /\ indexing_queue = << >>
    /\ pc' = [pc EXCEPT !.worker = "sleep"]
    /\ UNCHANGED search_vars
    /\ UNCHANGED <<fs, files, indexing_queue, is_ready, lock, worker_vars, prune_vars,
                   caller_vars, hist_vars>>

\* line 103-104: get() times out with nothing queued
QueueEmpty ==
    /\ pc.worker = "get"
    /\ indexing_queue = << >>
    /\ is_ready' = TRUE
    /\ pc' = [pc EXCEPT !.worker = "sleep"]
    /\ UNCHANGED search_vars
    /\ UNCHANGED <<fs, files, indexing_queue, lock, worker_vars, prune_vars,
                   caller_vars, hist_vars>>

\* line 105: time.sleep(1)
Sleep ==
    /\ pc.worker = "sleep"
    /\ pc' = [pc EXCEPT !.worker = "get"]
    /\ UNCHANGED search_vars
    /\ UNCHANGED <<fs, files, indexing_queue, is_ready, lock, worker_vars, prune_vars,
                   caller_vars, hist_vars>>

\* how a scan that ends now is recorded
ScanOutcome == CASE cur_scan = "clean"  -> "ok"
                 [] cur_scan = "failed" -> "failed"
                 [] OTHER               -> "none"

\* line 102: _scan_and_index has returned, normally or through its handler
ScanDone ==
    /\ pc.worker = "scan_done"
    /\ is_ready' = TRUE
    /\ pc' = [pc EXCEPT !.worker = "get"]
    /\ scanlog' = [scanlog EXCEPT ![root_path] = ScanOutcome]
    /\ cur_scan' = "idle"
    /\ root_path' = << >>
    /\ walk' = << >>
    /\ cur_dir' = << >>
    /\ todo' = << >>
    /\ batch' = << >>
    /\ count' = 0
    /\ UNCHANGED search_vars
    /\ UNCHANGED <<fs, files, indexing_queue, lock, prune_vars, caller_vars,
                   enq, scans, gone, pruned, nFs, nFaults>>

(***************************************************************************)
(* Librarian._scan_and_index, lines 107-135, and _write_batch, 137-143.    *)
(***************************************************************************)
\* the files os.walk lists for directory d: those on disk when it is listed
ListedFiles(d) ==
    SelectSeq(ListFiles(d), LAMBDA f : fs[path_join(d, f)].exists)

\* line 112: the sub-directories the walk descends into
KeptDirs(d) ==
    LET kept == SelectSeq(ListDirs(d),
                    LAMBDA n : lower(n) \notin GLOBAL_EXCLUDES /\ ~startswith(n, "."))
    IN  [i \in 1..Len(kept) |-> path_join(d, kept[i])]

\* line 111-112 and 134: the walk yields its next directory, or is over
WalkNext ==
    /\ pc.worker = "walk"
    /\ IF walk = << >>
       THEN /\ pc' = [pc EXCEPT !.worker = IF batch # << >> THEN "fin_lock" ELSE "scan_done"]
            /\ UNCHANGED <<walk, cur_dir, todo>>
       ELSE /\ cur_dir' = Head(walk)
            /\ todo' = ListedFiles(Head(walk))
            /\ walk' = KeptDirs(Head(walk)) \o Tail(walk)
            /\ pc' = [pc EXCEPT !.worker = IF todo' = << >> THEN "walk" ELSE "file"]
    /\ UNCHANGED search_vars
    /\ UNCHANGED <<fs, files, indexing_queue, is_ready, lock, root_path, batch, count,
                   prune_vars, caller_vars, hist_vars>>

\* the walk itself raises
WalkFail ==
    /\ pc.worker = "walk"
    /\ walk # << >>
    /\ nFs + nFaults < MaxDisturbances
    /\ nFaults' = nFaults + 1
    /\ pc' = [pc EXCEPT !.worker = exception_target("walk")]
    /\ cur_scan' = IF cur_scan = "clean" THEN "failed" ELSE cur_scan
    /\ UNCHANGED search_vars
    /\ UNCHANGED <<fs, files, indexing_queue, is_ready, lock, worker_vars, prune_vars,
                   caller_vars, enq, scans, scanlog, gone, pruned, nFs>>

\* lines 114-132: one iteration of "for f in files"
ScanFile ==
    /\ pc.worker = "file"
    /\ todo # << >>
    /\ LET f  == Head(todo)
           st == fs[path_join(cur_dir, f)]
       IN  IF count >= MAX_INDEX_ITEMS
           THEN /\ pc' = [pc EXCEPT !.worker = "scan_done"]     \* line 115: return
                /\ UNCHANGED <<todo, batch, count>>
           ELSE /\ todo' = Tail(todo)
                /\ batch' = IF st.exists                        \* os.stat raises: pass
                            THEN Append(batch, MakeRow(cur_dir, f, st)) ELSE batch
                /\ count' = IF st.exists THEN count + 1 ELSE count
                /\ pc' = [pc EXCEPT !.worker =
                            IF Len(batch') > BATCH_LIMIT THEN "wb_lock"
                            ELSE IF todo' = << >> THEN "walk" ELSE "file"]
    /\ UNCHANGED search_vars
    /\ UNCHANGED <<fs, files, indexing_queue, is_ready, lock, root_path, walk, cur_dir,
                   prune_vars, caller_vars, hist_vars>>

\* line 138: with self.lock
WriteBatchAcquire ==
    /\ pc.worker \in {"wb_lock", "fin_lock"}
    /\ lock = "none"
    /\ lock' = "worker"
    /\ pc' = [pc EXCEPT !.worker = IF pc.worker = "wb_lock" THEN "wb_exec" ELSE "fin_exec"]
    /\ UNCHANGED search_vars
    /\ UNCHANGED <<fs, files, indexing_queue, is_ready, worker_vars, prune_vars,
                   caller_vars, hist_vars>>

\* lines 139-143: executemany, commit, release; back to line 132 or out of line 134
WriteBatchExec ==
    /\ pc.worker \in {"wb_exec", "fin_exec"}
    /\ files' = ExecuteMany(files, batch, Len(batch))
    /\ lock' = "none"
    /\ IF pc.worker = "wb_exec"
       THEN /\ batch' = << >>
            /\ pc' = [pc EXCEPT !.worker = IF todo = << >> THEN "walk" ELSE "file"]
       ELSE /\ batch' = batch
            /\ pc' = [pc EXCEPT !.worker = "scan_done"]
    /\ UNCHANGED search_vars
    /\ UNCHANGED <<fs, indexing_queue, is_ready, root_path, walk, cur_dir, todo, count,
                   prune_vars, caller_vars, hist_vars>>

\* lines 139-143 raise: the rows executed so far stay in the connection's view
WriteBatchFail ==
    /\ pc.worker \in {"wb_exec", "fin_exec"}
    /\ nFs + nFaults < MaxDisturbances
    /\ nFaults' = nFaults + 1
    /\ \E k \in 0..Len(batch) : files' = ExecuteMany(files, batch, k)
    /\ lock' = "none"
    /\ pc' = [pc EXCEPT !.worker = exception_target(pc.worker)]
    /\ cur_scan' = IF cur_scan = "clean" THEN "failed" ELSE cur_scan
    /\ UNCHANGED search_vars
    /\ UNCHANGED <<fs, indexing_queue, is_ready, worker_vars, prune_vars, caller_vars,
                   enq, scans, scanlog, gone, pruned, nFs>>

(***************************************************************************)
(* Librarian._prune_dead_files, lines 145-163.                             *)
(***************************************************************************)
\* line 148 and line 155: with self.lock
PruneAcquire ==
    /\ pc.worker \in {"prune_lock", "prune_lock2"}
    /\ lock = "none"
    /\ lock' = "worker"
    /\ pc' = [pc EXCEPT !.worker =
                IF pc.worker = "prune_lock" THEN "prune_select" ELSE "prune_delete"]
    /\ UNCHANGED search_vars
    /\ UNCHANGED <<fs, files, indexing_queue, is_ready, worker_vars, prune_vars,
                   caller_vars, hist_vars>>

\* lines 149-150: SELECT path FROM files, release
PruneSelect ==
    /\ pc.worker = "prune_select"
    /\ paths' = SelectPaths(files)
    /\ dead_paths' = << >>
    /\ lock' = "none"
    /\ pc' = [pc EXCEPT !.worker = IF paths' = << >> THEN "get" ELSE "prune_check"]
    /\ pruned' = IF paths' = << >> THEN "ok" ELSE pruned
    /\ UNCHANGED search_vars
    /\ UNCHANGED <<fs, files, indexing_queue, is_ready, worker_vars, caller_vars,
                   enq, scans, scanlog, cur_scan, gone, nFs, nFaults>>

\* line 152 keeping the paths that do exist
PruneCheckInverted ==
    /\ pc.worker = "prune_check"
    /\ paths' = Tail(paths)
    /\ dead_paths' = IF fs[Head(paths)].exists THEN Append(dead_paths, Head(paths))
                     ELSE dead_paths
    /\ pc' = [pc EXCEPT !.worker =
                IF paths' # << >> THEN "prune_check"
                ELSE IF dead_paths' # << >> THEN "prune_lock2" ELSE "get"]
    /\ pruned' = IF paths' = << >> /\ dead_paths' = << >> THEN "ok" ELSE pruned
    /\ UNCHANGED search_vars
    /\ UNCHANGED <<fs, files, indexing_queue, is_ready, lock, worker_vars, caller_vars,
                   enq, scans, scanlog, cur_scan, gone, nFs, nFaults>>

\* line 152, one path at a time, and line 154
PruneCheck ==
    /\ pc.worker = "prune_check"
    /\ paths' = Tail(paths)
    /\ dead_paths' = IF ~fs[Head(paths)].exists THEN Append(dead_paths, Head(paths))
                     ELSE dead_paths
    /\ pc' = [pc EXCEPT !.worker =
                IF paths' # << >> THEN "prune_check"
                ELSE IF dead_paths' # << >> THEN "prune_lock2" ELSE "get"]
    /\ pruned' = IF paths' = << >> /\ dead_paths' = << >> THEN "ok" ELSE pruned
    /\ UNCHANGED search_vars
    /\ UNCHANGED <<fs, files, indexing_queue, is_ready, lock, worker_vars, caller_vars,
                   enq, scans, scanlog, cur_scan, gone, nFs, nFaults>>

\* the chunk of line 159 that starts at the head of what is left
Chunk(s) == SubSeq(s, 1, IF Len(s) < CHUNK_SIZE THEN Len(s) ELSE CHUNK_SIZE)

Rest(s) == SubSeq(s, Len(Chunk(s)) + 1, Len(s))

\* a DELETE without its WHERE clause
PruneDeleteEverything ==
    /\ pc.worker = "prune_delete"
    /\ files' = {}
    /\ dead_paths' = Rest(dead_paths)
    /\ IF dead_paths' = << >>
       THEN /\ lock' = "none"
            /\ pc' = [pc EXCEPT !.worker = "get"]
            /\ pruned' = "ok"
       ELSE UNCHANGED <<lock, pc, pruned>>
    /\ UNCHANGED search_vars
    /\ UNCHANGED <<fs, indexing_queue, is_ready, worker_vars, paths, caller_vars,
                   enq, scans, scanlog, cur_scan, gone, nFs, nFaults>>

\* lines 158-162: one DELETE per chunk; after the last, commit and release
PruneDelete ==
    /\ pc.worker = "prune_delete"
    /\ files' = DeleteIn(files, Chunk(dead_paths))
    /\ dead_paths' = Rest(dead_paths)
    /\ IF dead_paths' = << >>
       THEN /\ lock' = "none"
            /\ pc' = [pc EXCEPT !.worker = "get"]
            /\ pruned' = "ok"
       ELSE UNCHANGED <<lock, pc, pruned>>
    /\ UNCHANGED search_vars
    /\ UNCHANGED <<fs, indexing_queue, is_ready, worker_vars, paths, caller_vars,
                   enq, scans, scanlog, cur_scan, gone, nFs, nFaults>>

\* the SELECT, a DELETE or the commit raises
PruneFail ==
    /\ pc.worker \in {"prune_select", "prune_delete"}
    /\ nFs + nFaults < MaxDisturbances
    /\ nFaults' = nFaults + 1
    /\ lock' = "none"
    /\ pc' = [pc EXCEPT !.worker = exception_target(pc.worker)]
    /\ pruned' = "failed"
    /\ paths' = << >>
    /\ dead_paths' = << >>
    /\ UNCHANGED search_vars
    /\ UNCHANGED <<fs, files, indexing_queue, is_ready, worker_vars, caller_vars,
                   enq, scans, scanlog, cur_scan, gone, nFs>>

(***************************************************************************)
(* Callers: Librarian.index_path (89-90), query (165-178) and get_status   *)
(* (180-184), called from a thread other than the worker.                  *)
(***************************************************************************)
\* line 90: indexing_queue.put(root_path)
IndexPath(r) ==
    /\ pc.caller = "idle"
    /\ EnqTotal < MaxEnqueues
    /\ ~index_path_waits
    /\ indexing_queue' = Append(indexing_queue, r)
    /\ enq' = [enq EXCEPT ![r] = @ + 1]
    /\ ret' = {}
    /\ status' = -1
    /\ UNCHANGED search_vars
    /\ UNCHANGED <<fs, files, is_ready, lock, pc, worker_vars, prune_vars,
                   scans, scanlog, cur_scan, gone, pruned, nFs, nFaults>>

\* The statements a caller passes to query(): the SELECT of search_generator
\* (lines 361-379: four columns, optional category and size conditions) and a
\* SELECT of all seven columns.
Queries ==
    { [columns |-> "four", ext |-> << >>, category |-> "",     min_size |-> 0, min_date |-> 0],
      [columns |-> "all",  ext |-> << >>, category |-> "",     min_size |-> 0, min_date |-> 0],
      [columns |-> "all",  ext |-> << >>, category |-> "code", min_size |-> 0, min_date |-> 0] }

Matches(r, q) ==
    /\ q.ext = << >> \/ r.ext = q.ext
    /\ q.category = "" \/ r.category = q.category
    /\ q.min_size = 0 \/ r.size >= q.min_size
    /\ q.min_date = 0 \/ r.mtime >= q.min_date

\* lines 172-175: r[0], r[1], r[4], r[5] of each fetched row
RowDict(r) == [path |-> r.path, name |-> r.name, size |-> r.size, mtime |-> r.mtime]

\* lines 170-178: a row of four columns has no r[4]; the IndexError is caught
QueryResult(tbl, q) ==
    LET rows == {r \in tbl : Matches(r, q)} IN
    IF q.columns = "four" /\ rows # {} THEN {} ELSE {RowDict(r) : r \in rows}

\* line 167: not ready, return []
QueryNotReady ==
    /\ pc.caller = "idle"
    /\ ~is_ready
    /\ ret' = {}
    /\ status' = -1
    /\ UNCHANGED search_vars
    /\ UNCHANGED <<fs, files, indexing_queue, is_ready, lock, pc, worker_vars, prune_vars,
                   hist_vars>>

\* line 167: ready, go on to line 168
QueryBegin ==
    /\ pc.caller = "idle"
    /\ is_ready
    /\ pc' = [pc EXCEPT !.caller = "q_lock"]
    /\ ret' = {}
    /\ status' = -1
    /\ UNCHANGED search_vars
    /\ UNCHANGED <<fs, files, indexing_queue, is_ready, lock, worker_vars, prune_vars,
                   hist_vars>>

\* line 168 entered without taking the lock
QueryAcquireNoLock ==
    /\ pc.caller = "q_lock"
    /\ pc' = [pc EXCEPT !.caller = "q_exec"]
    /\ UNCHANGED search_vars
    /\ UNCHANGED <<fs, files, indexing_queue, is_ready, lock, worker_vars, prune_vars,
                   caller_vars, hist_vars>>

\* line 168: with self.lock
QueryAcquire ==
    /\ pc.caller = "q_lock"
    /\ lock = "none"
    /\ lock' = "caller"
    /\ pc' = [pc EXCEPT !.caller = "q_exec"]
    /\ UNCHANGED search_vars
    /\ UNCHANGED <<fs, files, indexing_queue, is_ready, worker_vars, prune_vars,
                   caller_vars, hist_vars>>

\* lines 169-175: execute, fetch, return, release
QueryExec ==
    /\ pc.caller = "q_exec"
    /\ \E q \in Queries : ret' = QueryResult(files, q)
    /\ lock' = "none"
    /\ pc' = [pc EXCEPT !.caller = "idle"]
    /\ UNCHANGED search_vars
    /\ UNCHANGED <<fs, files, indexing_queue, is_ready, worker_vars, prune_vars,
                   status, hist_vars>>

\* lines 176-178: the statement raises a store error, return []
QueryFail ==
    /\ pc.caller = "q_exec"
    /\ nFs + nFaults < MaxDisturbances
    /\ nFaults' = nFaults + 1
    /\ ret' = {}
    /\ lock' = "none"
    /\ pc' = [pc EXCEPT !.caller = "idle"]
    /\ UNCHANGED search_vars
    /\ UNCHANGED <<fs, files, indexing_queue, is_ready, worker_vars, prune_vars, status,
                   enq, scans, scanlog, cur_scan, gone, pruned, nFs>>

\* get_status is called
StatusBegin ==
    /\ pc.caller = "idle"
    /\ pc' = [pc EXCEPT !.caller = "st_lock"]
    /\ ret' = {}
    /\ status' = -1
    /\ UNCHANGED search_vars
    /\ UNCHANGED <<fs, files, indexing_queue, is_ready, lock, worker_vars, prune_vars,
                   hist_vars>>

\* line 182: with self.lock
StatusAcquire ==
    /\ pc.caller = "st_lock"
    /\ lock = "none"
    /\ lock' = "caller"
    /\ pc' = [pc EXCEPT !.caller = "st_exec"]
    /\ UNCHANGED search_vars
    /\ UNCHANGED <<fs, files, indexing_queue, is_ready, worker_vars, prune_vars,
                   caller_vars, hist_vars>>

\* lines 183-184: SELECT count(*), release
StatusExec ==
    /\ pc.caller = "st_exec"
    /\ status' = Cardinality(files)
    /\ lock' = "none"
    /\ pc' = [pc EXCEPT !.caller = "idle"]
    /\ UNCHANGED search_vars
    /\ UNCHANGED <<fs, files, indexing_queue, is_ready, worker_vars, prune_vars, ret,
                   hist_vars>>

(***************************************************************************)
(* The environment: files are written and deleted while the program runs.  *)
(***************************************************************************)
FsWrite(p, st) ==
    /\ nFs + nFaults < MaxDisturbances
    /\ fs[p] # st
    /\ fs' = [fs EXCEPT ![p] = st]
    /\ nFs' = nFs + 1
    /\ gone' = gone \ {p}
    /\ scanlog' = [r \in Roots |-> "none"]
    /\ cur_scan' = IF cur_scan = "idle" THEN "idle" ELSE "changed"
    /\ UNCHANGED search_vars
    /\ UNCHANGED <<files, indexing_queue, is_ready, lock, pc, worker_vars, prune_vars,
                   caller_vars, enq, scans, pruned, nFaults>>

FsDelete(p) ==
    /\ nFs + nFaults < MaxDisturbances
    /\ fs[p].exists
    /\ fs' = [fs EXCEPT ![p] = Absent]
    /\ nFs' = nFs + 1
    /\ scanlog' = [r \in Roots |-> "none"]
    /\ cur_scan' = IF cur_scan = "idle" THEN "idle" ELSE "changed"
    /\ UNCHANGED search_vars
    /\ UNCHANGED <<files, indexing_queue, is_ready, lock, pc, worker_vars, prune_vars,
                   caller_vars, enq, scans, gone, pruned, nFaults>>

Worker ==
    \/ StartupPrune \/ SkipPrune
    \/ PruneAcquire \/ PruneSelect \/ PruneCheck \/ PruneDelete \/ PruneFail
    \/ Dequeue \/ QueueEmpty \/ Sleep \/ ScanDone
    \/ WalkNext \/ WalkFail \/ ScanFile
    \/ WriteBatchAcquire \/ WriteBatchExec \/ WriteBatchFail

Caller ==
    \/ \E r \in Roots : IndexPath(r)
    \/ QueryNotReady \/ QueryBegin \/ QueryAcquire \/ QueryExec \/ QueryFail
    \/ StatusBegin \/ StatusAcquire \/ StatusExec

\* the files the environment touches: the first of A and the one of B/old
Touched == {PathsIn(RootA)[1], PathsIn(DirOld)[1]}

Environment ==
    \/ \E p \in Touched : FsWrite(p, Stat2)
    \/ \E p \in Touched : FsDelete(p)

Next == Worker \/ Caller \/ Environment

Spec == Init /\ [][Next]_vars

\* the two threads of the program on a disk that nobody else changes
FairNext == Worker \/ Caller

\* lines 92-105 under a fair scheduler: the worker thread runs again and
\* again whenever it can, also where it waits for the lock (lines 138, 148,
\* 155); a thread inside "with self.lock" (lines 168-175, 182-183) goes on
\* to the release
FairSpec ==
    /\ Init
    /\ [][FairNext]_vars
    /\ SF_vars(Worker)
    /\ WF_vars(QueryExec \/ QueryFail \/ StatusExec)

(***************************************************************************)
(* Vocabulary of the claims.                                               *)
(***************************************************************************)
\* the thread is executing a statement on the shared connection
WorkerExecuting == pc.worker \in {"prune_select", "prune_delete", "wb_exec", "fin_exec"}

CallerExecuting == pc.caller \in {"q_exec", "st_exec"}

InQueue(r) == Cardinality({i \in 1..Len(indexing_queue) : indexing_queue[i] = r})

HasRow(p) == \E r \in files : r.path = p

(***************************************************************************)
(* C1.  A query and the Indexer's store writes never block one another: a  *)
(* query issued while a batch write or a prune delete is in progress does  *)
(* not wait for it, and a batch write issued while a query is in progress  *)
(* does not wait for the query.  A thread waits when it has reached "with  *)
(* self.lock" and the other thread holds the lock.                         *)
(***************************************************************************)
C1_QueryAndWriteNeverBlock ==
    /\ ~(pc.caller = "q_lock" /\ lock = "worker"
            /\ pc.worker \in {"wb_exec", "fin_exec", "prune_delete"})
    /\ ~(pc.worker \in {"wb_lock", "fin_lock"} /\ lock = "caller" /\ pc.caller = "q_exec")

(***************************************************************************)
(* C2.  At most one thread at a time executes a statement on the shared    *)
(* connection: every query, batch write, prune read, prune delete and      *)
(* status count runs while its thread holds the lock.                      *)
(***************************************************************************)
C2_StatementsUnderLock ==
    /\ WorkerExecuting => lock = "worker"
    /\ CallerExecuting => lock = "caller"
    /\ ~(WorkerExecuting /\ CallerExecuting)

\* the caller runs its query while the worker waits for the lock to flush a batch
C2_Witness == pc.caller = "q_exec" /\ pc.worker \in {"wb_lock", "fin_lock"}

(***************************************************************************)
(* C3.  No two rows of the index have the same path, and a batch write     *)
(* leaves, for every row it writes, exactly that row under its path: a row *)
(* whose path was present is replaced.                                     *)
(***************************************************************************)
PathUnique == \A r1, r2 \in files : r1.path = r2.path => r1 = r2

C3_PathUniqueUpsert ==
    /\ [](PathUnique)
    /\ [][WriteBatchExec =>
            \A i \in 1..Len(batch) :
                \A r \in files' : r.path = batch[i].path => r = batch[i]]_vars

\* the first file of A was indexed by an earlier run, was rewritten, and has
\* now been indexed again: its row shows the new size
C3_Witness ==
    /\ HasRow(PathsIn(DirOld)[1])
    /\ \E r \in files : r.path = PathsIn(RootA)[1] /\ r.size = Stat2.st_size

C5_IndexWithinCap == Cardinality(files) <= MAX_INDEX_ITEMS

(***************************************************************************)
(* C6.  Once a prune pass has run to completion, a path that was in the    *)
(* index and absent from disk when the pass began, and has not reappeared  *)
(* on disk, is in no row of the index and in no row a query returns.       *)
(***************************************************************************)
C6_PrunedPathNotReturned ==
    pruned = "ok" =>
        \A p \in gone : ~HasRow(p) /\ \A d \in ret : d.path # p

\* after a completed prune that had dead paths to delete, a query returned rows
C6_Witness == pruned = "ok" /\ gone # {} /\ ret # {}

(***************************************************************************)
(* C7.  index_path returns without waiting in every reachable state,       *)
(* whatever the worker is doing, whoever holds the lock and whatever the   *)
(* queue length: an idle caller can always complete the put.               *)
(***************************************************************************)
C7_EnqueueNeverWaits ==
    (pc.caller = "idle" /\ EnqTotal < MaxEnqueues) => ENABLED IndexPath(RootA)

\* the worker holds the lock in the middle of a batch write and the caller can
\* complete a put
C7_Witness ==
    /\ lock = "worker"
    /\ pc.worker \in {"wb_exec", "fin_exec"}
    /\ ENABLED IndexPath(RootA)

(***************************************************************************)
(* C8.  The worker loop never ends: a traversal error, a store error in a  *)
(* batch write or a failure of the startup prune leaves the worker in its  *)
(* loop, without the lock, able to dequeue the next root.                  *)
(***************************************************************************)
C8_WorkerNeverEnds ==
    /\ pc.worker # "dead"
    /\ lock = "worker" => WorkerExecuting
    /\ (pc.worker = "get" /\ indexing_queue # << >>) => ENABLED Dequeue

\* a scan failed and the worker is scanning the next root
C8_Witness ==
    /\ nFaults > 0
    /\ \E r \in Roots : scanlog[r] = "failed"
    /\ pc.worker = "file"

(***************************************************************************)
(* C9.  is_ready is false at construction, becomes true exactly at the     *)
(* step where the worker returns from a scan (ended normally or by an      *)
(* error) or where its queue wait times out with nothing queued, and is    *)
(* never set back to false.                                                *)
(***************************************************************************)
C9_Readiness ==
    /\ is_ready = FALSE
    /\ [][/\ is_ready => is_ready'
          /\ (~is_ready /\ is_ready') =>
                \/ pc.worker = "scan_done" /\ pc'.worker = "get"
                \/ pc.worker = "get" /\ indexing_queue = << >> /\ pc'.worker = "sleep"
          /\ (pc.worker = "scan_done" /\ pc'.worker = "get") => is_ready'
          /\ (pc.worker = "get" /\ pc'.worker = "sleep") => is_ready']_vars

\* ready although the only scan so far failed
C9_Witness ==
    /\ is_ready
    /\ \E r \in Roots : scanlog[r] = "failed"
    /\ scans[RootA] + scans[RootB] = 1

(***************************************************************************)
(* C10.  Each index_path(root) causes at most one scan of that root: the   *)
(* scans begun for a root and its entries still queued add up to the       *)
(* number of times it was enqueued, also after a failed scan.              *)
(***************************************************************************)
C10_AtMostOneScanPerEnqueue ==
    \A r \in Roots : scans[r] + InQueue(r) = enq[r]

\* the scan of a root failed and the root is not queued again
C10_Witness ==
    \E r \in Roots : scanlog[r] = "failed" /\ InQueue(r) = 0 /\ scans[r] = enq[r]

(***************************************************************************)
(* The search side.  Strings are sequences of characters; the operators    *)
(* below compute what the str, re, shlex and os.path calls of the source   *)
(* compute on them.                                                        *)
(***************************************************************************)
Digits == <<"0","1","2","3","4","5","6","7","8","9">>

IsDigit(c) == \E i \in 1..Len(Digits) : Digits[i] = c

\* int(c) of one digit
DigitVal(c) == (CHOOSE i \in 1..Len(Digits) : Digits[i] = c) - 1

\* [a-zA-Z]
IsAlpha(c) ==
    \E i \in 1..Len(UpperChars) : UpperChars[i] = c \/ LowerChars[i] = c

\* \s, str.isspace
IsSpace(c) == c = " "

\* c in s, for one character
has_char(s, c) == \E i \in 1..Len(s) : s[i] = c

\* sub in s
contains(s, sub) ==
    \E i \in 0..(Len(s) - Len(sub)) : SubSeq(s, i + 1, i + Len(sub)) = sub

\* s.endswith(suf)
endswith(s, suf) ==
    Len(suf) <= Len(s) /\ SubSeq(s, Len(s) - Len(suf) + 1, Len(s)) = suf

\* s.strip(chars)
strip(s, chars) ==
    IF \A i \in 1..Len(s) : s[i] \in chars THEN << >>
    ELSE LET lo == CHOOSE i \in 1..Len(s) :
                      s[i] \notin chars /\ \A j \in 1..(i-1) : s[j] \in chars
             hi == CHOOSE i \in 1..Len(s) :
                      s[i] \notin chars /\ \A j \in (i+1)..Len(s) : s[j] \in chars
         IN SubSeq(s, lo, hi)

\* s.replace(c, '') for each c of chars
remove_chars(s, chars) == SelectSeq(s, LAMBDA c : c \notin chars)

\* " ".join(parts)
RECURSIVE join(_)
join(parts) ==
    IF Len(parts) = 0 THEN << >>
    ELSE IF Len(parts) = 1 THEN parts[1]
    ELSE parts[1] \o <<" ">> \o join(Tail(parts))

\* int(s) of a string of digits
RECURSIVE int(_)
int(s) ==
    IF Len(s) = 0 THEN 0
    ELSE 10 * int(SubSeq(s, 1, Len(s) - 1)) + DigitVal(s[Len(s)])

\* line 230: unicodedata.normalize('NFKD', s).encode('ASCII', 'ignore'): each
\* character is replaced by its compatibility decomposition, of which the
\* ASCII characters are kept.  A character outside ASCII is written as its
\* code point: U+2122 (trade mark sign) decomposes to "TM", U+00E9 (e with
\* acute accent) to "e" and a combining accent, U+65E5 (a CJK ideograph)
\* has no decomposition.
RECURSIVE nfkd_ascii(_)
nfkd_ascii(s) ==
    IF Len(s) = 0 THEN << >>
    ELSE (CASE Head(s) = "U+2122" -> <<"T", "M">>
            [] Head(s) = "U+00E9" -> <<"e">>
            [] Head(s) = "U+65E5" -> << >>
            [] OTHER -> <<Head(s)>>) \o nfkd_ascii(Tail(s))

\* lines 227-231: lower-case, decompose and keep the ASCII characters,
\* remove whitespace, "_", "-", "."
normalize_name(name) ==
    remove_chars(nfkd_ascii(lower(name)), {" ", "_", "-", "."})

\* shlex.split(s): POSIX rules for whitespace, quotes and the backslash.
\* ok is FALSE where shlex raises ValueError (no closing quotation, no
\* escaped character).
RECURSIVE ShlexScan(_, _, _, _, _, _)
ShlexScan(s, i, cur, open, quote, acc) ==
    IF i > Len(s)
    THEN IF quote # "" THEN [ok |-> FALSE, parts |-> << >>]
         ELSE [ok |-> TRUE, parts |-> IF open THEN Append(acc, cur) ELSE acc]
    ELSE LET c == s[i] IN
         IF quote = ""
         THEN IF IsSpace(c)
              THEN ShlexScan(s, i + 1, << >>, FALSE, "",
                             IF open THEN Append(acc, cur) ELSE acc)
              ELSE IF c \in {"\"", "'"}
              THEN ShlexScan(s, i + 1, cur, TRUE, c, acc)
              ELSE IF c = "\\"
              THEN IF i = Len(s) THEN [ok |-> FALSE, parts |-> << >>]
                   ELSE ShlexScan(s, i + 2, Append(cur, s[i + 1]), TRUE, "", acc)
              ELSE ShlexScan(s, i + 1, Append(cur, c), TRUE, "", acc)
         ELSE IF c = quote
              THEN ShlexScan(s, i + 1, cur, TRUE, "", acc)
              ELSE IF quote = "\"" /\ c = "\\" /\ i < Len(s) /\ s[i + 1] \in {"\"", "\\"}
              THEN ShlexScan(s, i + 2, Append(cur, s[i + 1]), TRUE, quote, acc)
              ELSE ShlexScan(s, i + 1, Append(cur, c), TRUE, quote, acc)

shlex_split(s) == ShlexScan(s, 1, << >>, FALSE, "", << >>)

\* s.split(): the runs of non-whitespace characters
RECURSIVE SplitScan(_, _, _, _)
SplitScan(s, i, cur, acc) ==
    IF i > Len(s) THEN IF Len(cur) > 0 THEN Append(acc, cur) ELSE acc
    ELSE IF IsSpace(s[i])
    THEN SplitScan(s, i + 1, << >>, IF Len(cur) > 0 THEN Append(acc, cur) ELSE acc)
    ELSE SplitScan(s, i + 1, Append(cur, s[i]), acc)

split(s) == SplitScan(s, 1, << >>, << >>)

\* re.compile(val): the pattern errors of the model's alphabet.  A pattern
\* is rejected when a "[" has no "]" after it, when a ")" closes nothing or
\* a "(" is left open, or when it begins with a repetition operator.
RECURSIVE ParenDepth(_, _, _)
ParenDepth(s, i, d) ==
    IF d < 0 THEN d
    ELSE IF i > Len(s) THEN d
    ELSE ParenDepth(s, i + 1, IF s[i] = "(" THEN d + 1
                              ELSE IF s[i] = ")" THEN d - 1 ELSE d)

re_compiles(val) ==
    /\ \A i \in 1..Len(val) : val[i] = "[" => \E j \in (i+2)..Len(val) : val[j] = "]"
    /\ ParenDepth(val, 1, 0) = 0
    /\ ~(Len(val) > 0 /\ val[1] \in {"*", "+", "?"})

\* pattern.search(name) with re.IGNORECASE, for the patterns the model
\* compiles: literal characters and ".", which stands for any character
re_search(pat, name) ==
    \E i \in 0..(Len(name) - Len(pat)) :
        \A k \in 1..Len(pat) :
            pat[k] = "." \/ lower_char(pat[k]) = lower_char(name[i + k])

\* float(s): surrounding whitespace and an optional sign are set aside
SignedBody(t) == IF startswith(t, "+") \/ startswith(t, "-") THEN Tail(t) ELSE t

FloatBody(s) == SignedBody(strip(s, {" "}))

FloatNegative(s) == startswith(strip(s, {" "}), "-")

\* what is left must be digits with at most one "." and at least one digit
FloatBodyOk(b) ==
    /\ \A i \in 1..Len(b) : IsDigit(b[i]) \/ b[i] = "."
    /\ \E i \in 1..Len(b) : IsDigit(b[i])
    /\ Cardinality({i \in 1..Len(b) : b[i] = "."}) <= 1

\* float(s) raises ValueError unless s is a decimal numeral
float_ok(s) == FloatBodyOk(FloatBody(s))

\* position of the "." of a numeral, one past its end when it has none
DotAt(b) ==
    IF has_char(b, ".") THEN CHOOSE i \in 1..Len(b) : b[i] = "." ELSE Len(b) + 1

\* whole.frac * unit, in whole bytes
Scaled(whole, frac, unit) ==
    int(whole) * unit + (int(frac) * unit) \div (10 ^ Len(frac))

FloatBodyTimes(b, unit) ==
    Scaled(SubSeq(b, 1, DotAt(b) - 1), SubSeq(b, DotAt(b) + 1, Len(b)), unit)

\* float(s) * unit
float_times(s, unit) ==
    IF FloatNegative(s) THEN 0 - FloatBodyTimes(FloatBody(s), unit)
    ELSE FloatBodyTimes(FloatBody(s), unit)

\* float('inf')
Inf == 2147483647

\* the number of digits s begins with
LeadingDigits(s) ==
    IF \E i \in 1..Len(s) : ~IsDigit(s[i])
    THEN (CHOOSE i \in 1..Len(s) : ~IsDigit(s[i]) /\ \A j \in 1..(i-1) : IsDigit(s[j])) - 1
    ELSE Len(s)

\* line 240-242: the unit table, seconds per unit
UnitSeconds(unit) ==
    CASE unit = "d" -> 86400 [] unit = "w" -> 604800
      [] unit = "m" -> 2592000 [] unit = "y" -> 31536000

\* lines 238-243: re.match(r'([<>])?(\d+)([d|w|m|y])', val) on what follows
\* the optional sign; nd is the length of the digits
TimeAmount(rest, nd, t) ==
    IF nd >= 1 /\ nd < Len(rest) /\ rest[nd + 1] \in {"d", "|", "w", "m", "y"}
    THEN IF rest[nd + 1] = "|" THEN [kind |-> "raise", ts |-> 0]
         ELSE [kind |-> "ts", ts |-> t - int(SubSeq(rest, 1, nd)) * UnitSeconds(rest[nd + 1])]
    ELSE [kind |-> "none", ts |-> 0]

\* lines 235-243, val lower-cased
TimeOf(val, t) ==
    IF val = <<"t","o","d","a","y">> THEN [kind |-> "ts", ts |-> t - 86400]
    ELSE IF val = <<"y","e","s","t","e","r","d","a","y">> THEN [kind |-> "ts", ts |-> t - 86400 * 2]
    ELSE IF Len(val) > 0 /\ val[1] \in {"<", ">"}
    THEN TimeAmount(Tail(val), LeadingDigits(Tail(val)), t)
    ELSE TimeAmount(val, LeadingDigits(val), t)

\* lines 233-243.  kind is "ts" (a timestamp), "none" (None) or "raise"
\* (the unit table has no entry for "|", which the pattern admits)
parse_time_filter(val, t) == TimeOf(lower(val), t)

\* line 247: the filters before any token is read
EmptyFilters ==
    [parsed |-> TRUE, raised |-> FALSE, text |-> << >>, ext |-> << >>, regex |-> << >>,
     category |-> << >>, min_size |-> 0, max_size |-> Inf, min_date |-> 0,
     max_date |-> Inf, content_search |-> FALSE, target |-> << >>, target_clean |-> << >>]

\* parse_query left by an exception
Raised == [parsed |-> FALSE, raised |-> TRUE]

\* part.split(':', 1)
KeyOf(part) ==
    SubSeq(part, 1, (CHOOSE i \in 1..Len(part) :
                         part[i] = ":" /\ \A j \in 1..(i-1) : part[j] # ":") - 1)

ValOf(part) ==
    SubSeq(part, (CHOOSE i \in 1..Len(part) :
                      part[i] = ":" /\ \A j \in 1..(i-1) : part[j] # ":") + 1, Len(part))

FilterKeys ==
    {<<"e","x","t">>, <<"r","e","g","e","x">>, <<"c","o","n","t","e","n","t">>, <<"t","y","p","e">>, <<"c","a","t">>, <<"s","i","z","e">>,
     <<"m","o","d","i","f","i","e","d">>, <<"c","r","e","a","t","e","d">>, <<"a","c","c","e","s","s","e","d">>}

\* lines 266-269: the unit of a size
SizeUnit(lv) ==
    IF endswith(lv, <<"m">>) THEN 1024 * 1024
    ELSE IF endswith(lv, <<"k">>) THEN 1024
    ELSE IF endswith(lv, <<"g">>) THEN 1024 * 1024 * 1024
    ELSE 1

\* line 270: re.sub(r'[a-zA-Z]', '', val.replace('>','').replace('<',''))
SizeDigits(val) == SelectSeq(remove_chars(val, {">", "<"}), LAMBDA c : ~IsAlpha(c))

\* lines 270-273, digits and unit in hand
SizeSet(f, val, digits, unit) ==
    IF ~float_ok(digits) THEN Raised
    ELSE IF has_char(val, ">") THEN [f EXCEPT !.min_size = float_times(digits, unit)]
    ELSE IF has_char(val, "<") THEN [f EXCEPT !.max_size = float_times(digits, unit)]
    ELSE f

\* lines 265-273: 'size'
SizeFilter(f, val) == SizeSet(f, val, SizeDigits(val), SizeUnit(lower(val)))

\* lines 276-279, r being what parse_time_filter returned
DateSet(f, val, r) ==
    IF r.kind = "raise" THEN Raised
    ELSE IF r.kind = "ts" /\ r.ts # 0
    THEN IF has_char(val, ">") \/ contains(val, <<"t","o","d","a","y">>)
         THEN [f EXCEPT !.min_date = r.ts]
         ELSE IF has_char(val, "<") THEN [f EXCEPT !.max_date = r.ts]
         ELSE f
    ELSE f

\* lines 274-279: 'modified', 'created', 'accessed'
DateFilter(f, val, t) ==
    DateSet(f, val, parse_time_filter(remove_chars(val, {">", "<"}), t))

\* lines 258-279: the if / elif chain over the key; it has no else
ApplyKey(f, key, val, t) ==
    IF key = <<"e","x","t">>
    THEN [f EXCEPT !.ext = <<".">> \o strip(lower(val), {"."})]
    ELSE IF key = <<"r","e","g","e","x">>
    THEN IF re_compiles(val) THEN [f EXCEPT !.regex = <<val>>] ELSE Raised
    ELSE IF key = <<"c","o","n","t","e","n","t">>
    THEN [f EXCEPT !.content_search = (lower(val) = <<"t","r","u","e">>)]
    ELSE IF key \in {<<"t","y","p","e">>, <<"c","a","t">>}
    THEN [f EXCEPT !.category = lower(val)]
    ELSE IF key = <<"s","i","z","e">> THEN SizeFilter(f, val)
    ELSE IF key \in {<<"m","o","d","i","f","i","e","d">>, <<"c","r","e","a","t","e","d">>, <<"a","c","c","e","s","s","e","d">>}
    THEN DateFilter(f, val, t)
    ELSE f

\* lines 256-281: one token
ApplyPart(f, part, t) ==
    IF has_char(part, ":") /\ ~startswith(part, "\\")
    THEN ApplyKey(f, lower(KeyOf(part)), ValOf(part), t)
    ELSE [f EXCEPT !.text = Append(@, part)]

\* lines 255-281: the loop over the tokens; an exception ends it
RECURSIVE ApplyParts(_, _, _)
ApplyParts(f, parts, t) ==
    IF f.raised \/ Len(parts) = 0 THEN f
    ELSE ApplyParts(ApplyPart(f, parts[1], t), Tail(parts), t)

\* lines 250-253: shlex.split, and str.split when it raises
tokens(raw_query) ==
    LET sh == shlex_split(raw_query) IN
    IF sh.ok THEN sh.parts ELSE split(raw_query)

\* lines 283-284: target and target_clean
WithTarget(f) ==
    IF f.raised THEN f
    ELSE [f EXCEPT !.target = join(f.text),
                   !.target_clean = normalize_name(join(f.text))]

\* lines 245-284; t is time.time()
parse_query(raw_query, t) == WithTarget(ApplyParts(EmptyFilters, tokens(raw_query), t))

(***************************************************************************)
(* The home directory the disk fallback looks at.  Of the five priority    *)
(* directories, Desktop and Downloads exist.                               *)
(***************************************************************************)
Home == <<"~">>

Desktop == path_join(Home, <<"D","e","s","k","t","o","p">>)

Downloads == path_join(Home, <<"D","o","w","n","l","o","a","d","s">>)

Recent == StartOfRun - 100

LongAgo == StartOfRun - 30 * 86400

Entry(dir, name, is_dir, size, mtime, content) ==
    [name |-> name, path |-> path_join(dir, name), is_dir |-> is_dir,
     st_size |-> size, st_mtime |-> mtime, content |-> content]

\* os.scandir(d): the entries of a directory, in the order it yields them
scandir(d) ==
    CASE d = Desktop ->
           << Entry(Desktop, <<"r","e","p","o","r","t",".","p","d","f">>, FALSE, 2 * 1024 * 1024, LongAgo, <<"%","P","D","F">>),
              Entry(Desktop, <<"R","e","p","o","r","t">>, TRUE, 0, Recent, << >>),
              Entry(Desktop, <<"r","e","p","o">>, FALSE, 10, LongAgo, <<"T","h","e"," ","R","e","p","o","r","t">>),
              Entry(Desktop, <<"b","u","i","l","d">>, TRUE, 0, LongAgo, << >>) >>
      [] d = Downloads ->
           << Entry(Downloads, <<"r","e","p","o","r","t">>, FALSE, 20 * 1024 * 1024, LongAgo, <<"q","3">>),
              Entry(Downloads, <<"n","o","t","e","s",".","t","x","t">>, FALSE, 10, Recent, <<"t","o","d","o">>),
              Entry(Downloads, <<"_">>, FALSE, 10, LongAgo, << >>) >>
      [] OTHER -> << >>

HomeEntries ==
    {scandir(Desktop)[i] : i \in 1..Len(scandir(Desktop))}
        \cup {scandir(Downloads)[i] : i \in 1..Len(scandir(Downloads))}

\* os.path.exists(p)
path_exists(p) ==
    \/ p \in {Home, Desktop, Downloads}
    \/ \E e \in HomeEntries : e.path = p
    \/ p \in Dirs
    \/ p \in FilePaths /\ fs[p].exists

\* os.path.isdir(p)
path_isdir(p) ==
    \/ p \in {Home, Desktop, Downloads}
    \/ \E e \in HomeEntries : e.path = p /\ e.is_dir
    \/ p \in Dirs

\* f.read(MAX_CONTENT_READ) of the file at p; "none" where open() raises
FileContent(p) ==
    IF \E e \in HomeEntries : e.path = p /\ ~e.is_dir
    THEN [ok |-> TRUE, text |-> (CHOOSE e \in HomeEntries : e.path = p).content]
    ELSE [ok |-> FALSE, text |-> << >>]

\* os.path.basename(p)
basename(p) ==
    IF has_char(p, "/")
    THEN SubSeq(p, (CHOOSE i \in 1..Len(p) :
                        p[i] = "/" /\ \A j \in (i+1)..Len(p) : p[j] # "/") + 1, Len(p))
    ELSE p

\* lines 286-298: the candidates that exist, in order
get_priority_paths ==
    SelectSeq(<< Desktop, Downloads, path_join(Home, <<"D","o","c","u","m","e","n","t","s">>),
                 path_join(Home, <<"P","i","c","t","u","r","e","s">>), path_join(Home, <<"V","i","d","e","o","s">>) >>,
              path_exists)

(***************************************************************************)
(* SearchMemory, lines 194-219.                                            *)
(***************************************************************************)
\* line 213: self.history[normalize_name(query)] = path
learn(hist, query, path) ==
    [k \in DOMAIN hist \cup {normalize_name(query)} |->
        IF k = normalize_name(query) THEN path ELSE hist[k]]

\* lines 215-219, in ten-thousandths
get_boost(hist, query, path) ==
    IF normalize_name(query) \in DOMAIN hist /\ hist[normalize_name(query)] = path
    THEN 4000 ELSE 0

\* lines 206-210: json.dump(self.history, f)
saved(hist) == [present |-> TRUE, valid |-> TRUE, data |-> hist]

(***************************************************************************)
(* Scoring, lines 328-358.  Scores are integers, in ten-thousandths.       *)
(***************************************************************************)
FUZZY_THRESHOLD == 6000

\* the blocks a[i..i+k-1] = b[j..j+k-1] inside a[alo..ahi], b[blo..bhi]
MatchingBlocks(a, alo, ahi, b, blo, bhi) ==
    {t \in (alo..ahi) \X (blo..bhi) \X (1..(ahi - alo + 1)) :
        /\ t[1] + t[3] - 1 <= ahi
        /\ t[2] + t[3] - 1 <= bhi
        /\ SubSeq(a, t[1], t[1] + t[3] - 1) = SubSeq(b, t[2], t[2] + t[3] - 1)}

\* the longest block, the earliest in a, then the earliest in b
BestBlock(Blocks) ==
    IF Blocks = {} THEN <<0, 0, 0>>
    ELSE CHOOSE t \in Blocks :
             \A u \in Blocks :
                 \/ t[3] > u[3]
                 \/ t[3] = u[3] /\ t[1] < u[1]
                 \/ t[3] = u[3] /\ t[1] = u[1] /\ t[2] <= u[2]

\* difflib.SequenceMatcher.find_longest_match (1-based, inclusive bounds)
LongestMatch(a, alo, ahi, b, blo, bhi) == BestBlock(MatchingBlocks(a, alo, ahi, b, blo, bhi))

\* get_matching_blocks: the number of matched characters is the longest
\* block, then the same to its left and to its right
RECURSIVE MatchedChars(_, _, _, _, _, _)
RECURSIVE MatchedAround(_, _, _, _, _, _, _)
MatchedAround(a, alo, ahi, b, blo, bhi, m) ==
    IF m[3] = 0 THEN 0
    ELSE m[3] + MatchedChars(a, alo, m[1] - 1, b, blo, m[2] - 1)
              + MatchedChars(a, m[1] + m[3], ahi, b, m[2] + m[3], bhi)

MatchedChars(a, alo, ahi, b, blo, bhi) ==
    IF alo > ahi \/ blo > bhi THEN 0
    ELSE MatchedAround(a, alo, ahi, b, blo, bhi, LongestMatch(a, alo, ahi, b, blo, bhi))

\* SequenceMatcher(None, a, b).ratio() = 2.0 * matches / (len(a) + len(b))
ratio(a, b) ==
    IF Len(a) + Len(b) = 0 THEN 10000
    ELSE (20000 * MatchedChars(a, 1, Len(a), b, 1, Len(b))) \div (Len(a) + Len(b))

Min(x, y) == IF x < y THEN x ELSE y

\* lines 340-342: the fuzzy score of a ratio
FuzzyScore(r) == IF r >= FUZZY_THRESHOLD THEN (r * 7) \div 10 ELSE 0

\* lines 337-342: the score of a normalized name against target_clean
TargetScore(target_clean, name_clean, fuzzy) ==
    IF target_clean = name_clean THEN 10000
    ELSE IF contains(name_clean, target_clean) THEN 8000
    ELSE IF fuzzy THEN FuzzyScore(ratio(target_clean, name_clean))
    ELSE 0

\* lines 331-343: the score of the name alone
NameScore(f, fuzzy, name) ==
    IF f.regex # << >>
    THEN IF re_search(f.regex[1], name) THEN 10000 ELSE 0
    ELSE IF f.target_clean # << >>
    THEN TargetScore(f.target_clean, normalize_name(name), fuzzy)
    ELSE 8000

\* lines 350-356: the content of the file holds the query text
ContentHit(f, path, is_dir) ==
    /\ f.content_search
    /\ ~is_dir
    /\ FileContent(path).ok
    /\ contains(lower(FileContent(path).text), lower(f.target))

\* the score without the cut at 0.3 (line 344 left out)
FinalScoreNoReject(s0, bonus, hit) ==
    IF s0 + bonus < 6000 /\ hit THEN 9500
    ELSE Min(s0 + bonus, 10000)

\* lines 345-358: reject below 0.3, add the bonuses, content, clamp
FinalScore(s0, bonus, hit) ==
    IF s0 < 3000 THEN 0
    ELSE IF s0 + bonus < 6000 /\ hit THEN 9500
    ELSE Min(s0 + bonus, 10000)

\* the score left as it is after the bonuses
calculate_score_unclamped(f, fuzzy, hist, t, name, path, is_dir, mtime) ==
    NameScore(f, fuzzy, name)
        + (IF mtime > t - 86400 THEN 1000 ELSE 0) + get_boost(hist, f.target, path)

\* lines 328-358; t is time.time(), hist is memory.history
calculate_score(f, fuzzy, hist, t, name, path, is_dir, mtime) ==
    FinalScore(NameScore(f, fuzzy, name),
               (IF mtime > t - 86400 THEN 1000 ELSE 0) + get_boost(hist, f.target, path),
               ContentHit(f, path, is_dir))

(***************************************************************************)
(* search_generator, lines 308-420, and find_path_ranked / find_path,      *)
(* lines 426-460.                                                          *)
(***************************************************************************)
\* "if len(matches) > 100: break" (line 443), scaled to the model's disk
MatchCap == 3

\* "if len(seen_paths) < 10" (line 396)
FallbackBelow == 10

\* the category of a row, as the string a query parameter is compared with
category_str(s) ==
    CASE s = <<"i","m","a","g","e">> -> "image" [] s = <<"v","i","d","e","o">> -> "video" [] s = <<"a","u","d","i","o">> -> "audio"
      [] s = <<"c","o","d","e">> -> "code" [] s = <<"d","o","c">> -> "doc" [] s = <<"o","t","h","e","r">> -> "other"
      [] OTHER -> "?"

\* lines 361-379: the statement of Phase 1 and its parameters
SearchSql(f, item_type) ==
    [columns |-> "four",
     ext |-> f.ext,
     category |-> IF f.category # << >> THEN category_str(f.category)
                  ELSE IF item_type \notin {"file", "folder"} THEN item_type
                  ELSE "",
     min_size |-> IF f.min_size > 0 THEN f.min_size ELSE 0,
     min_date |-> IF f.min_date > 0 THEN f.min_date ELSE 0]

\* a result as it is yielded (lines 392, 418)
Match(path, name, score) == [path |-> path, name |-> name, score |-> score]

\* a candidate of Phase 1 is yielded whatever kind it is
Phase1YieldsAnyKind(c, is_dir, score) == score > 4000

\* lines 386-393: a candidate of Phase 1 is yielded
Phase1Yields(c, is_dir, score) ==
    /\ ~(c.item_type = "folder" /\ ~is_dir)
    /\ ~(c.item_type = "file" /\ is_dir)
    /\ score > 4000

\* lines 384-393: the loop over the candidates of Phase 1, in row order;
\* ms are the matches collected so far
RECURSIVE Phase1Loop(_, _, _, _, _, _)
RECURSIVE Phase1Step(_, _, _, _, _, _, _)
Phase1Step(cands, ms, f, c, hist, t, score) ==
    IF Phase1Yields(c, path_isdir(Head(cands).path), score)
    THEN Phase1Loop(Tail(cands), Append(ms, Match(Head(cands).path, Head(cands).name, score)),
                    f, c, hist, t)
    ELSE Phase1Loop(Tail(cands), ms, f, c, hist, t)

Phase1Loop(cands, ms, f, c, hist, t) ==
    IF Len(cands) = 0 \/ Len(ms) > MatchCap THEN ms
    ELSE Phase1Step(cands, ms, f, c, hist, t,
                    calculate_score(f, c.fuzzy, hist, t, Head(cands).name, Head(cands).path,
                                    path_isdir(Head(cands).path), Head(cands).mtime))

\* librarian.query(sql, params), lines 166-178, on an idle store
librarian_query(sql) ==
    LET rows == IF is_ready THEN QueryResult(files, sql) ELSE {} IN
    SelectSeq([i \in 1..Len(PathOrder) |->
                  IF \E r \in rows : r.path = PathOrder[i]
                  THEN CHOOSE r \in rows : r.path = PathOrder[i]
                  ELSE [path |-> << >>]],
              LAMBDA r : r.path # << >>)

\* FILE_TYPES.get(item_type, set())
FileTypesOf(item_type) ==
    IF item_type \in Categories THEN FILE_TYPES[item_type] ELSE {}

\* lines 408-413: the manual filters of Phase 2 let the entry through
Phase2Passes(f, item_type, e) ==
    /\ ~(f.min_date > 0 /\ e.st_mtime < f.min_date)
    /\ ~(f.ext # << >> /\ ~endswith(e.name, f.ext))
    /\ ~(item_type \notin {"file", "folder"} /\ ~e.is_dir
            /\ lower(splitext_ext(e.name)) \notin FileTypesOf(item_type))

\* matches.sort(key=score, reverse=True) keeps no order
NoSort(ms) == ms

\* a sort that puts the latest of equal scores first
RECURSIVE SortDescLatestFirst(_)
SortDescLatestFirst(ms) ==
    IF Len(ms) = 0 THEN << >>
    ELSE LET i == CHOOSE k \in 1..Len(ms) :
                      /\ \A j \in 1..Len(ms) : ms[j].score <= ms[k].score
                      /\ \A j \in (k+1)..Len(ms) : ms[j].score < ms[k].score
         IN <<ms[i]>> \o SortDescLatestFirst(SubSeq(ms, 1, i - 1) \o SubSeq(ms, i + 1, Len(ms)))

\* line 445: matches.sort(key=lambda x: x['score'], reverse=True); the sort
\* is stable, equal scores keep the order they were appended in
RECURSIVE SortDesc(_)
SortDesc(ms) ==
    IF Len(ms) = 0 THEN << >>
    ELSE LET i == CHOOSE k \in 1..Len(ms) :
                      /\ \A j \in 1..Len(ms) : ms[j].score <= ms[k].score
                      /\ \A j \in 1..(k-1) : ms[j].score < ms[k].score
         IN <<ms[i]>> \o SortDesc(SubSeq(ms, 1, i - 1) \o SubSeq(ms, i + 1, Len(ms)))

\* matches[:limit], for limit >= 0
Top(ms, limit) == SubSeq(ms, 1, Min(limit, Len(ms)))

\* line 433: target.strip().strip('"')
clean_target(target) == strip(strip(target, {" "}), {"\""})

\* what the caller gets: the list (find_path_ranked, line 446), or its first
\* path or None (find_path, lines 458-460)
Returned(c, items) ==
    IF c.fn = "find_path"
    THEN IF Len(items) > 0 THEN [kind |-> "path", path |-> items[1].path]
         ELSE [kind |-> "nothing"]
    ELSE [kind |-> "list", items |-> items]

\* the calls the model makes: find_path_ranked, find_path (limit 1, timeout
\* 2.0) and the calls of batch_search (limit 3, timeout 1.0)
Ranked(target, item_type, limit, fuzzy, timeout) ==
    [fn |-> "find_path_ranked", target |-> target, item_type |-> item_type,
     limit |-> limit, fuzzy |-> fuzzy, timeout |-> timeout]

FindPath(target, item_type) ==
    [fn |-> "find_path", target |-> target, item_type |-> item_type,
     limit |-> 1, fuzzy |-> TRUE, timeout |-> 2]

Calls ==
    { Ranked(<<"r","e","p","o","r","t">>, "folder", 2, TRUE, 1),
      Ranked(<<"r","e","p","o","r","t">>, "file", 0, TRUE, 2),
      Ranked(<<"r","e","p","o","r","t">>, "image", 3, TRUE, 1),
      FindPath(<<"r","e","p","o","r","t">>, "folder"),
      Ranked(<<"r","e","p","o","t">>, "folder", 3, TRUE, 1),
      Ranked(<<"r","e","p","o","t">>, "folder", 3, FALSE, 1),
      Ranked(<<"r","e","p","o","r","t"," ","e","x","t",":",".","P","D","F">>, "file", 3, TRUE, 1),
      Ranked(<<"r","e","g","e","x",":","r","e","p",".","r","t">>, "file", 3, TRUE, 1),
      Ranked(<<"r","e","g","e","x",":","[">>, "file", 3, TRUE, 1),
      Ranked(<<"r","e","p","o","r","t"," ","s","i","z","e",":",">","1","0","m">>, "file", 3, TRUE, 1),
      Ranked(<<"s","i","z","e",":","a","b","c">>, "file", 3, TRUE, 1),
      Ranked(<<"s","i","z","e",":",">">>, "file", 3, TRUE, 1),
      Ranked(<<"r","e","p","o","r","t"," ","m","o","d","i","f","i","e","d",":",">","7","d">>, "folder", 3, TRUE, 1),
      Ranked(<<"r","e","p","o","r","t"," ","m","o","d","i","f","i","e","d",":","s","o","o","n">>, "folder", 3, TRUE, 1),
      Ranked(<<"m","o","d","i","f","i","e","d",":","7","|">>, "folder", 3, TRUE, 1),
      Ranked(<<"r","e","p","o","r","t"," ","t","a","g",":","w","o","r","k">>, "folder", 3, TRUE, 1),
      Ranked(<<"\"","r","e","p","o","r","t">>, "folder", 3, TRUE, 1),
      Ranked(<<"r","e","p","o","r","t"," ","c","o","n","t","e","n","t",":","t","r","u","e">>, "file", 3, TRUE, 1),
      Ranked(<<"r","e","p","o","r","t"," ","r","e","g","e","x",":","p","d","f">>, "file", 3, TRUE, 1),
      Ranked(<<"t","y","p","e",":","D","o","c">>, "folder", 3, TRUE, 1),
      Ranked(<<"g">>, "audio", 3, TRUE, 1),
      Ranked(<< >>, "folder", 3, TRUE, 1),
      Ranked(<<" ","\"","~","/","D","e","s","k","t","o","p","/","R","e","p","o","r","t","\""," ">>, "folder", 0, TRUE, 1),
      FindPath(<<"~","/","D","o","w","n","l","o","a","d","s","/","n","o","t","e","s",".","t","x","t">>, "file"),
      Ranked(<<"t","o","d","o"," ","c","o","n","t","e","n","t",":","t","r","u","e">>, "file", 3, TRUE, 1),
      Ranked(<<"r","e","p","o","r","t"," ","s","i","z","e",":","<","1","k"," ","m","o","d","i","f","i","e","d",":","<","7","d">>, "folder", 3, TRUE, 1),
      Ranked(<<"~","/","D","e","s","k","t","o","p","/","r","e","p","o","r","t",".","p","d","f">>, "folder", 3, TRUE, 1),
      FindPath(<<"~","/","D","e","s","k","t","o","p","/","R","e","p","o","r","t">>, "file") }

\* the selections the caller confirms
LearnPairs ==
    { <<<<"r","e","p","o","r","t">>, path_join(Desktop, <<"r","e","p","o","r","t",".","p","d","f">>)>>,
      <<<<"r","e","p","o","r","t"," ","e","x","t",":",".","P","D","F">>, path_join(Desktop, <<"r","e","p","o","r","t",".","p","d","f">>)>>,
      <<<<"R","e","p","o","r","t">>, path_join(Desktop, <<"R","e","p","o","r","t">>)>> }

MaxLearns == 1

MaxTicks == 2

librarian_vars == <<fs, files, indexing_queue, is_ready, lock, pc,
                    worker_vars, prune_vars, caller_vars, hist_vars>>

\* find_path_ranked, find_path or a call of batch_search is entered
FindPathRanked(c) ==
    /\ spc = "idle"
    /\ call' = c
    /\ spc' = "called"
    /\ filters' = NoFilters
    /\ start_time' = 0
    /\ seen_paths' = {}
    /\ matches' = << >>
    /\ p_dirs' = << >>
    /\ entries' = << >>
    /\ result' = [kind |-> "none"]
    /\ did' = {}
    /\ UNCHANGED <<history, history_file, now, nLearn>>
    /\ UNCHANGED librarian_vars

\* q is set and the generator goes to the disk scan at once
ParsedSkipsIndex(f) ==
    /\ ~f.raised
    /\ filters' = f
    /\ spc' = IF f.target_clean = << >> /\ f.regex = << >> /\ f.category = << >>
                 /\ call.item_type = "folder"
              THEN "collected" ELSE "gate"

\* lines 319-324: q is set; with nothing to search for the generator ends
Parsed(f) ==
    /\ ~f.raised
    /\ filters' = f
    /\ spc' = IF f.target_clean = << >> /\ f.regex = << >> /\ f.category = << >>
                 /\ call.item_type = "folder"
              THEN "collected" ELSE "phase1"

\* the existing path is put through the search like any other target
DirectPathViaSearch ==
    /\ spc = "called"
    /\ path_exists(clean_target(call.target))
    /\ Parsed(parse_query(call.target, now))
    /\ start_time' = now
    /\ did' = {"parse"}
    /\ UNCHANGED <<history, history_file, call, now, seen_paths, matches, p_dirs, entries,
                   result, nLearn>>
    /\ UNCHANGED librarian_vars

\* the existing path is returned only when it is of the kind asked for
DirectPathOfKind ==
    /\ spc = "called"
    /\ path_exists(clean_target(call.target))
    /\ result' = Returned(call,
                   IF (call.item_type = "folder" /\ ~path_isdir(clean_target(call.target)))
                        \/ (call.item_type = "file" /\ path_isdir(clean_target(call.target)))
                   THEN << >>
                   ELSE << Match(clean_target(call.target),
                                 basename(clean_target(call.target)), 10000) >>)
    /\ spc' = "idle"
    /\ UNCHANGED <<history, history_file, call, filters, start_time, now, seen_paths,
                   matches, p_dirs, entries, did, nLearn>>
    /\ UNCHANGED librarian_vars

\* lines 433-437: the target is an existing path
DirectPath ==
    /\ spc = "called"
    /\ path_exists(clean_target(call.target))
    /\ result' = Returned(call, << Match(clean_target(call.target),
                                         basename(clean_target(call.target)), 10000) >>)
    /\ spc' = "idle"
    /\ UNCHANGED <<history, history_file, call, filters, start_time, now, seen_paths,
                   matches, p_dirs, entries, did, nLearn>>
    /\ UNCHANGED librarian_vars

\* lines 439-440, 318-324: the generator starts, parse_query returns
ParseQuery ==
    /\ spc = "called"
    /\ ~path_exists(clean_target(call.target))
    /\ Parsed(parse_query(call.target, now))
    /\ start_time' = now
    /\ did' = {"parse"}
    /\ UNCHANGED <<history, history_file, call, now, seen_paths, matches, p_dirs, entries,
                   result, nLearn>>
    /\ UNCHANGED librarian_vars

\* line 319: parse_query raises; nothing between it and the caller catches
ParseRaises ==
    /\ spc = "called"
    /\ ~path_exists(clean_target(call.target))
    /\ parse_query(call.target, now).raised
    /\ start_time' = now
    /\ did' = {"parse"}
    /\ result' = [kind |-> "raised"]
    /\ spc' = "idle"
    /\ UNCHANGED <<history, history_file, call, filters, now, seen_paths, matches, p_dirs,
                   entries, nLearn>>
    /\ UNCHANGED librarian_vars

\* lines 384-393: the matches of Phase 1 have been yielded
Phase1Done(ms) ==
    /\ matches' = ms
    /\ seen_paths' = {ms[i].path : i \in 1..Len(ms)}
    /\ spc' = IF Len(ms) > MatchCap THEN "collected" ELSE "gate"

\* lines 360-393: Phase 1, the index
Phase1 ==
    /\ spc = "phase1"
    /\ Phase1Done(Phase1Loop(librarian_query(SearchSql(filters, call.item_type)),
                             << >>, filters, call, history, now))
    /\ did' = did \cup {"index"}
    /\ UNCHANGED <<history, history_file, call, filters, start_time, now, p_dirs, entries,
                   result, nLearn>>
    /\ UNCHANGED librarian_vars

\* the store error goes through query and search_generator to the caller
Phase1StoreErrorRaises ==
    /\ spc = "phase1"
    /\ is_ready
    /\ result' = [kind |-> "raised"]
    /\ spc' = "idle"
    /\ did' = did \cup {"index", "store_error"}
    /\ UNCHANGED <<history, history_file, call, filters, start_time, now, seen_paths,
                   matches, p_dirs, entries, nLearn>>
    /\ UNCHANGED librarian_vars

\* the store is read, and fails, whether the index is ready or not
Phase1StoreErrorUnready ==
    /\ spc = "phase1"
    /\ Phase1Done(<< >>)
    /\ did' = did \cup {"index", "store_error"}
    /\ UNCHANGED <<history, history_file, call, filters, start_time, now, p_dirs, entries,
                   result, nLearn>>
    /\ UNCHANGED librarian_vars

\* lines 170, 176-178 and 382-384: conn.execute raises, query prints the
\* error and returns [], the loop of Phase 1 has no candidate
Phase1StoreError ==
    /\ spc = "phase1"
    /\ is_ready
    /\ Phase1Done(<< >>)
    /\ did' = did \cup {"index", "store_error"}
    /\ UNCHANGED <<history, history_file, call, filters, start_time, now, p_dirs, entries,
                   result, nLearn>>
    /\ UNCHANGED librarian_vars

\* lines 396-397: Phase 2 runs when Phase 1 found fewer than ten
Phase2Begin ==
    /\ spc = "gate"
    /\ IF Cardinality(seen_paths) < FallbackBelow
       THEN p_dirs' = get_priority_paths /\ spc' = "scan"
       ELSE p_dirs' = p_dirs /\ spc' = "collected"
    /\ UNCHANGED <<history, history_file, call, filters, start_time, now, seen_paths,
                   matches, entries, result, did, nLearn>>
    /\ UNCHANGED librarian_vars

\* lines 399-401: the next priority directory is opened
OpenDir ==
    /\ spc = "scan"
    /\ entries = << >>
    /\ p_dirs # << >>
    /\ entries' = scandir(Head(p_dirs))
    /\ p_dirs' = Tail(p_dirs)
    /\ did' = did \cup {"scan"}
    /\ UNCHANGED <<history, history_file, spc, call, filters, start_time, now, seen_paths,
                   matches, result, nLearn>>
    /\ UNCHANGED librarian_vars

\* lines 415-418: above 0.4 the entry is yielded to find_path_ranked, which
\* appends it (lines 440-443)
Yield(e, score) ==
    IF score > 4000
    THEN /\ seen_paths' = seen_paths \cup {e.path}
         /\ matches' = Append(matches, Match(e.path, e.name, score))
         /\ spc' = IF Len(matches) + 1 > MatchCap THEN "collected" ELSE "scan"
    ELSE UNCHANGED <<seen_paths, matches, spc>>

\* lines 402-418 for one entry: seen, or filtered out, or scored
EvaluateEntry(e) ==
    IF e.path \notin seen_paths /\ Phase2Passes(filters, call.item_type, e)
    THEN Yield(e, calculate_score(filters, call.fuzzy, history, now, e.name, e.path,
                                  e.is_dir, e.st_mtime))
    ELSE UNCHANGED <<seen_paths, matches, spc>>

\* the entry is evaluated whatever time has passed
Phase2EntryNoTimeout ==
    /\ spc = "scan"
    /\ entries # << >>
    /\ EvaluateEntry(Head(entries))
    /\ entries' = Tail(entries)
    /\ UNCHANGED <<history, history_file, call, filters, start_time, now, p_dirs, result,
                   did, nLearn>>
    /\ UNCHANGED librarian_vars

\* the entry is yielded again and again: seen_paths is neither kept nor looked at
YieldAgain(e, score) ==
    IF score > 4000
    THEN /\ matches' = Append(matches, Match(e.path, e.name, score))
         /\ entries' = entries
         /\ spc' = IF Len(matches) + 1 > MatchCap THEN "collected" ELSE "scan"
    ELSE /\ matches' = matches
         /\ entries' = Tail(entries)
         /\ spc' = spc

Phase2EntryAgain ==
    /\ spc = "scan"
    /\ entries # << >>
    /\ ~(now - start_time > call.timeout)
    /\ YieldAgain(Head(entries),
                  IF Phase2Passes(filters, call.item_type, Head(entries))
                  THEN calculate_score(filters, call.fuzzy, history, now, Head(entries).name,
                                       Head(entries).path, Head(entries).is_dir,
                                       Head(entries).st_mtime)
                  ELSE 0)
    /\ UNCHANGED <<history, history_file, call, filters, start_time, now, seen_paths,
                   p_dirs, result, did, nLearn>>
    /\ UNCHANGED librarian_vars

\* lines 402-418: an entry that is in seen_paths, or is reached in time
Phase2Entry ==
    /\ spc = "scan"
    /\ entries # << >>
    /\ Head(entries).path \in seen_paths \/ ~(now - start_time > call.timeout)
    /\ EvaluateEntry(Head(entries))
    /\ entries' = Tail(entries)
    /\ UNCHANGED <<history, history_file, call, filters, start_time, now, p_dirs, result,
                   did, nLearn>>
    /\ UNCHANGED librarian_vars

\* lines 400-420: entry.stat() raises (line 408 when a minimum date is
\* set, line 416 otherwise); the except of line 420 is outside the loop over
\* the entries, so the scan goes on with the next priority directory
Phase2EntryFails ==
    /\ spc = "scan"
    /\ entries # << >>
    /\ Head(entries).path \notin seen_paths
    /\ ~(now - start_time > call.timeout)
    /\ filters.min_date > 0 \/ Phase2Passes(filters, call.item_type, Head(entries))
    /\ "io_error" \notin did
    /\ entries' = << >>
    /\ did' = did \cup {"io_error"}
    /\ UNCHANGED <<history, history_file, spc, call, filters, start_time, now, seen_paths,
                   matches, p_dirs, result, nLearn>>
    /\ UNCHANGED librarian_vars

\* line 404: the timeout has passed, the generator returns
Phase2Timeout ==
    /\ spc = "scan"
    /\ entries # << >>
    /\ Head(entries).path \notin seen_paths
    /\ now - start_time > call.timeout
    /\ spc' = "collected"
    /\ UNCHANGED <<history, history_file, call, filters, start_time, now, seen_paths,
                   matches, p_dirs, entries, result, did, nLearn>>
    /\ UNCHANGED librarian_vars

\* the last entry of the last priority directory has been visited
Phase2End ==
    /\ spc = "scan"
    /\ entries = << >>
    /\ p_dirs = << >>
    /\ spc' = "collected"
    /\ UNCHANGED <<history, history_file, call, filters, start_time, now, seen_paths,
                   matches, p_dirs, entries, result, did, nLearn>>
    /\ UNCHANGED librarian_vars

\* lines 445-446 (and 458-460): sort, cut, return
Return ==
    /\ spc = "collected"
    /\ result' = Returned(call, Top(SortDesc(matches), call.limit))
    /\ spc' = "idle"
    /\ UNCHANGED <<history, history_file, call, filters, start_time, now, seen_paths,
                   matches, p_dirs, entries, did, nLearn>>
    /\ UNCHANGED librarian_vars

\* lines 468-469, 212-213: learn_selection(query, path); the caller has
\* moved on from its last search
LearnSelection(query, path) ==
    /\ spc = "idle"
    /\ nLearn < MaxLearns
    /\ history' = learn(history, query, path)
    /\ nLearn' = nLearn + 1
    /\ call' = NoCall
    /\ filters' = NoFilters
    /\ matches' = << >>
    /\ seen_paths' = {}
    /\ result' = [kind |-> "none"]
    /\ did' = {}
    /\ UNCHANGED <<history_file, spc, start_time, now, p_dirs, entries>>
    /\ UNCHANGED librarian_vars

\* the interpreter exits: atexit runs save (lines 198, 206-210); an error
\* in it is swallowed and leaves the file as it was
ProcessExit ==
    /\ spc = "idle"
    /\ spc' = "exited"
    /\ history_file' \in {saved(history), history_file}
    /\ UNCHANGED <<history, call, filters, start_time, now, seen_paths, matches, p_dirs,
                   entries, result, did, nLearn>>
    /\ UNCHANGED librarian_vars

\* the process is killed: no atexit handler runs
ProcessKilled ==
    /\ spc = "idle"
    /\ spc' = "killed"
    /\ UNCHANGED <<history, history_file, call, filters, start_time, now, seen_paths,
                   matches, p_dirs, entries, result, did, nLearn>>
    /\ UNCHANGED librarian_vars

\* a second passes while a call is in progress
Tick ==
    /\ spc \in {"called", "phase1", "gate", "scan", "collected"}
    /\ now - StartOfRun < MaxTicks
    /\ now' = now + 1
    /\ UNCHANGED <<history, history_file, spc, call, filters, start_time, seen_paths,
                   matches, p_dirs, entries, result, did, nLearn>>
    /\ UNCHANGED librarian_vars

\* a history file an earlier run left
OldHistory ==
    saved(learn(<< >>, <<"n","o","t","e","s">>, path_join(Downloads, <<"n","o","t","e","s",".","t","x","t">>)))

\* the program after start-up: the Librarian idle (ready, or not yet), the
\* SearchMemory loaded from whatever file there is
SearchInit ==
    /\ fs = [p \in FilePaths |->
               IF p = path_join(DirOld, ListFiles(DirOld)[1]) THEN Absent ELSE Stat1]
    /\ files = OldRows
    /\ indexing_queue = << >>
    /\ is_ready \in BOOLEAN
    /\ lock = "none"
    /\ pc = [worker |-> IF is_ready THEN "sleep" ELSE "start", caller |-> "idle"]
    /\ root_path = << >>
    /\ walk = << >>
    /\ cur_dir = << >>
    /\ todo = << >>
    /\ batch = << >>
    /\ count = 0
    /\ paths = << >>
    /\ dead_paths = << >>
    /\ ret = {}
    /\ status = -1
    /\ enq = [r \in Roots |-> 0]
    /\ scans = [r \in Roots |-> 0]
    /\ scanlog = [r \in Roots |-> "none"]
    /\ cur_scan = "idle"
    /\ gone = {}
    /\ pruned = "no"
    /\ nFs = 0
    /\ nFaults = 0
    /\ \E f \in {NoFile, OldHistory} : SearchConstructed(f)

SearchNext ==
    \/ \E c \in Calls : FindPathRanked(c)
    \/ DirectPath \/ ParseQuery \/ ParseRaises
    \/ Phase1 \/ Phase1StoreError \/ Phase2Begin \/ OpenDir \/ Phase2Entry \/ Phase2EntryFails
    \/ Phase2Timeout \/ Phase2End
    \/ Return
    \/ \E lp \in LearnPairs : LearnSelection(lp[1], lp[2])
    \/ ProcessExit \/ ProcessKilled
    \/ Tick

SearchSpec == SearchInit /\ [][SearchNext]_vars

(***************************************************************************)
(* Properties of the search side.                                          *)
(***************************************************************************)
\* the call in progress, or the last one, was for an existing path
Direct == path_exists(clean_target(call.target))

\* the results of the last find_path_ranked call
Items == IF result.kind = "list" THEN result.items ELSE << >>

\* a name equal, after normalization, to the text of the parsed query
IsExact(name) == normalize_name(name) = filters.target_clean

\* the score the search in progress computes for an entry
ScoreNow(e) ==
    calculate_score(filters, call.fuzzy, history, now, e.name, e.path, e.is_dir, e.st_mtime)

\* the score of entry e under raw query query with the history hist
ScoreUnder(query, hist, e, fuzzy) ==
    calculate_score(parse_query(query, now), fuzzy, hist, now, e.name, e.path,
                    e.is_dir, e.st_mtime)

\* a history without the selection learned for query
Forget(hist, query) ==
    [k \in DOMAIN hist \ {normalize_name(query)} |-> hist[k]]

\* the size of the file at a path: a home entry, or a file of the roots
SizeOf(p) ==
    IF \E e \in HomeEntries : e.path = p
    THEN (CHOOSE e \in HomeEntries : e.path = p).st_size
    ELSE IF p \in FilePaths THEN fs[p].st_size ELSE 0

\* C11: parse_query returns a filter structure for every input and never
\* raises: no search call ends with an exception out of parse_query.
C11_ParseNeverRaises == result.kind # "raised"

\* C12: every token key:value whose key is not a filter key is appended
\* whole to the text terms and so is part of target.
C12_UnknownKeyKeptAsText ==
    filters.parsed =>
        \A i \in 1..Len(tokens(call.target)) :
            ( /\ has_char(tokens(call.target)[i], ":")
              /\ ~startswith(tokens(call.target)[i], "\\")
              /\ lower(KeyOf(tokens(call.target)[i])) \notin FilterKeys )
            => /\ \E j \in 1..Len(filters.text) : filters.text[j] = tokens(call.target)[i]
               /\ contains(filters.target, tokens(call.target)[i])

\* C13: a target that is, trimmed of whitespace and double quotes, an
\* existing path is returned as the one result, with score 1.0, by
\* find_path_ranked, and as the path by find_path; the query is not parsed,
\* the index not queried and no priority directory scanned.
C13_DirectPathShortCircuit ==
    (spc = "idle" /\ call.fn # "none" /\ Direct) =>
        /\ did = {}
        /\ matches = << >>
        /\ call.fn = "find_path_ranked" =>
               /\ result.kind = "list"
               /\ Len(result.items) = 1
               /\ result.items[1].path = clean_target(call.target)
               /\ result.items[1].score = 10000
        /\ call.fn = "find_path" =>
               /\ result.kind = "path"
               /\ result.path = clean_target(call.target)

C13_Witness ==
    /\ spc = "idle"
    /\ call.fn = "find_path_ranked"
    /\ Direct
    /\ clean_target(call.target) # call.target
    /\ result.kind = "list"

\* C14, as stated: a candidate whose normalized name equals the normalized
\* query text scores 1.0 and stands in the returned ranking before every
\* returned candidate that matched by substring or fuzzy similarity only.
C14_ExactMatchFirst ==
    filters.parsed =>
        /\ \A e \in HomeEntries : IsExact(e.name) => ScoreNow(e) = 10000
        /\ (spc = "idle" /\ result.kind = "list") =>
               \A i \in 1..Len(matches) : \A k \in 1..Len(Items) :
                   (IsExact(matches[i].name) /\ ~IsExact(Items[k].name))
                   => \E j \in 1..(k-1) : Items[j] = matches[i]

\* C14, amended: for a query with text terms and no regex filter, the
\* candidate of equal normalized name scores 1.0, and a returned candidate
\* that matched otherwise stands before it (or in its place) only when it
\* holds the learned selection of the query and scores 1.0 too.
C14_ExactMatchFirstUnlessLearned ==
    (filters.parsed /\ filters.regex = << >> /\ filters.target_clean # << >>) =>
        /\ \A e \in HomeEntries : IsExact(e.name) => ScoreNow(e) = 10000
        /\ (spc = "idle" /\ result.kind = "list") =>
               \A i \in 1..Len(matches) : \A k \in 1..Len(Items) :
                   (IsExact(matches[i].name) /\ ~IsExact(Items[k].name))
                   => \/ \E j \in 1..(k-1) : Items[j] = matches[i]
                      \/ /\ Items[k].score = 10000
                         /\ get_boost(history, filters.target, Items[k].path) = 4000

C14_Witness ==
    /\ spc = "idle"
    /\ result.kind = "list"
    /\ filters.parsed
    /\ filters.regex = << >>
    /\ history # << >>
    /\ \E i \in 1..Len(Items) : \E k \in 1..Len(Items) :
           i < k /\ IsExact(Items[i].name) /\ ~IsExact(Items[k].name)

\* C15: in Phase 2, once more than timeout has passed since the search
\* began, no entry is evaluated and no result is emitted: at the next entry
\* the stream ends, with the rest of the directory and the remaining
\* directories left, and find_path_ranked returns what it has collected.
C15_TimeoutEndsStream ==
    [][ /\ (spc = "scan" /\ now - start_time > call.timeout) => matches' = matches
        /\ ( /\ spc = "scan" /\ now - start_time > call.timeout /\ now' = now
             /\ entries # << >> /\ Head(entries).path \notin seen_paths )
           => (spc' = "collected" /\ entries' = entries /\ p_dirs' = p_dirs)
        /\ (spc = "collected" /\ spc' # spc)
           => /\ spc' = "idle"
              /\ Len(Items') <= Len(matches)
              /\ \A i \in 1..Len(Items') : \E j \in 1..Len(matches) : Items'[i] = matches[j]
      ]_vars

C15_Witness ==
    /\ spc = "collected"
    /\ now - start_time > call.timeout
    /\ entries # << >>
    /\ p_dirs # << >>
    /\ matches # << >>

\* C16: the score of candidate p under query q after learn_selection(q, p)
\* is strictly greater than its score without the learned selection.
C16_BoostRaisesScore ==
    \A lp \in LearnPairs :
        (normalize_name(lp[1]) \in DOMAIN history /\ history[normalize_name(lp[1])] = lp[2])
        => \A e \in HomeEntries : \A fuzzy \in BOOLEAN :
               e.path = lp[2]
               => ScoreUnder(lp[1], history, e, fuzzy)
                      > ScoreUnder(lp[1], Forget(history, lp[1]), e, fuzzy)

\* C17: once learn_selection has returned, the history file holds exactly
\* the in-memory map.
C17_HistoryFileInSync ==
    nLearn > 0 =>
        /\ history_file.present
        /\ history_file.valid
        /\ history_file.data = history

\* C18: under a query with size:>N no emitted result is a file of fewer
\* than N bytes.
C18_NoResultBelowMinSize ==
    (filters.parsed /\ filters.min_size > 0) =>
        \A i \in 1..Len(matches) :
            path_isdir(matches[i].path) \/ SizeOf(matches[i].path) >= filters.min_size

NonIncreasing(ms) == \A i \in 1..(Len(ms) - 1) : ms[i].score >= ms[i + 1].score

\* items are n of the matches ms, and none left out scores higher
HighestOf(items, ms, n) ==
    /\ Len(items) = Min(n, Len(ms))
    /\ \E pos \in [1..Len(items) -> 1..Len(ms)] :
           /\ \A i \in 1..Len(items) : items[i] = ms[pos[i]]
           /\ \A i \in 1..Len(items) : \A k \in 1..Len(items) : i # k => pos[i] # pos[k]
           /\ \A j \in 1..Len(ms) :
                  (\A i \in 1..Len(items) : pos[i] # j)
                  => \A i \in 1..Len(items) : ms[j].score <= items[i].score

\* what find_path returns: the first of the ranking, or nothing
FindPathReturnsFirst ==
    (spc = "idle" /\ call.fn = "find_path" /\ ~Direct /\ result.kind # "raised") =>
        IF matches = << >> THEN result.kind = "nothing"
        ELSE /\ result.kind = "path"
             /\ \E i \in 1..Len(matches) :
                    /\ matches[i].path = result.path
                    /\ \A j \in 1..Len(matches) : matches[j].score <= matches[i].score

\* C20, as stated: find_path_ranked returns at most limit results, in order
\* of non-increasing score, the limit highest-scoring of the matches it
\* collected; find_path returns the path of the first, or nothing.
C20_TopLimit ==
    /\ (spc = "idle" /\ result.kind = "list") =>
           /\ Len(Items) <= call.limit
           /\ NonIncreasing(Items)
           /\ ~Direct => HighestOf(Items, matches, call.limit)
    /\ FindPathReturnsFirst

\* C20, amended: the same for a limit of at least one; whatever the limit,
\* an existing path is returned as one result.
C20_TopLimitFromOne ==
    /\ (spc = "idle" /\ result.kind = "list") =>
           /\ (call.limit >= 1 \/ ~Direct) => Len(Items) <= call.limit
           /\ Direct => Len(Items) = 1
           /\ NonIncreasing(Items)
           /\ ~Direct => HighestOf(Items, matches, call.limit)
    /\ FindPathReturnsFirst

C20_Witness ==
    /\ spc = "idle"
    /\ result.kind = "list"
    /\ call.limit >= 1
    /\ Len(matches) > call.limit
    /\ Len(Items) = call.limit
    /\ \E j \in 1..Len(matches) : matches[j].score < Items[Len(Items)].score

(***************************************************************************)
(* normalize_name as a function of its argument: the caller passes a name  *)
(* and passes the result again.                                            *)
(***************************************************************************)
MaxNameLen == 2

\* the characters names are made of
NameChars == {"a", "B", "7", " ", "_", "-", ".", "!", "U+2122", "U+00E9", "U+65E5"}

\* the names the caller passes
Names == UNION {[1..n -> NameChars] : n \in 0..MaxNameLen}

\* the program after start-up, the caller about to pass one of the names
NormInit ==
    /\ fs = [p \in FilePaths |->
               IF p = path_join(DirOld, ListFiles(DirOld)[1]) THEN Absent ELSE Stat1]
    /\ files = {}
    /\ indexing_queue = << >>
    /\ is_ready = FALSE
    /\ lock = "none"
    /\ pc = [worker |-> "start", caller |-> "idle"]
    /\ root_path = << >>
    /\ walk = << >>
    /\ cur_dir = << >>
    /\ todo = << >>
    /\ batch = << >>
    /\ count = 0
    /\ paths = << >>
    /\ dead_paths = << >>
    /\ ret = {}
    /\ status = -1
    /\ enq = [r \in Roots |-> 0]
    /\ scans = [r \in Roots |-> 0]
    /\ scanlog = [r \in Roots |-> "none"]
    /\ cur_scan = "idle"
    /\ gone = {}
    /\ pruned = "no"
    /\ nFs = 0
    /\ nFaults = 0
    /\ history_file = NoFile
    /\ history = load(NoFile)
    /\ spc = "idle"
    /\ call \in {[NoCall EXCEPT !.fn = "normalize_name", !.target = s] : s \in Names}
    /\ filters = NoFilters
    /\ start_time = 0
    /\ now = StartOfRun
    /\ seen_paths = {}
    /\ matches = << >>
    /\ p_dirs = << >>
    /\ entries = << >>
    /\ result = [kind |-> "none"]
    /\ did = {}
    /\ nLearn = 0

\* normalize_name(name), lines 227-231: of the name first, then of what
\* the first call returned
NormalizeName ==
    /\ spc = "idle"
    /\ call.fn = "normalize_name"
    /\ Cardinality(did) < 2
    /\ result' = [kind |-> "name",
                  of   |-> IF did = {} THEN call.target ELSE result.name,
                  name |-> normalize_name(IF did = {} THEN call.target ELSE result.name)]
    /\ did' = IF did = {} THEN {"once"} ELSE {"once", "twice"}
    /\ UNCHANGED <<history, history_file, spc, call, filters, start_time, now, seen_paths,
                   matches, p_dirs, entries, nLearn>>
    /\ UNCHANGED librarian_vars

NormNext == NormalizeName

NormSpec == NormInit /\ [][NormNext]_vars

\* C22: normalization is idempotent: normalize_name of what normalize_name
\* returned is that same string.
C22_NormalizeIdempotent ==
    (result.kind = "name" /\ did = {"once", "twice"}) => result.name = result.of

\* C23: what normalize_name returns holds only ASCII letters and digits.
C23_OnlyLettersAndDigits ==
    result.kind = "name" =>
        \A i \in 1..Len(result.name) : IsAlpha(result.name[i]) \/ IsDigit(result.name[i])

(***************************************************************************)
(* Properties of the two phases of the search.                             *)
(***************************************************************************)
\* C21: when the statement of Phase 1 fails in the store, the search does
\* not fail: Phase 1 yields nothing and the search goes on to the scan of
\* the priority directories.
C21_StoreErrorFallsBack ==
    [][ /\ (spc = "phase1" /\ "store_error" \in did')
           => (spc' = "gate" /\ matches' = << >> /\ result' = result)
        /\ (spc = "gate" /\ "store_error" \in did /\ spc' # spc)
           => (spc' = "scan" /\ p_dirs' = get_priority_paths)
        /\ "store_error" \in did' => result'.kind # "raised"
      ]_vars

C21_Witness ==
    /\ "store_error" \in did
    /\ "scan" \in did
    /\ spc = "idle"
    /\ result.kind = "list"
    /\ Len(result.items) > 0

\* C24: every score the scorer computes lies between 0 and 1: the scores
\* of the results, and the score of every entry under the query, the
\* history and the time of a search that begins.
C24_ScoreInUnitInterval ==
    /\ \A i \in 1..Len(matches) : matches[i].score \in 0..10000
    /\ spc = "phase1" => \A e \in HomeEntries : ScoreNow(e) \in 0..10000

C24_Witness ==
    /\ filters.parsed
    /\ \E i \in 1..Len(matches) : \E e \in HomeEntries :
           /\ e.path = matches[i].path
           /\ matches[i].score = 10000
           /\ NameScore(filters, call.fuzzy, e.name)
                  + get_boost(history, filters.target, e.path) > 10000

\* C25: when a scan ends without a store or traversal error, no row of a
\* file it stat-ed is left out of the index: the rows still in the batch
\* have been written.
C25_ScanFlushesEveryRow ==
    (pc.worker = "scan_done" /\ cur_scan # "failed") =>
        \A i \in 1..Len(batch) : batch[i] \in files

\* the test lines 385-391 make on row r of the index, for the call in
\* progress: TRUE when the row is yielded
Phase1Accepts(r) ==
    Phase1Yields(call, path_isdir(r.path),
                 calculate_score(filters, call.fuzzy, history, now, r.name, r.path,
                                 path_isdir(r.path), r.mtime))

C27_ResultsOfRequestedKind ==
    \A i \in 1..Len(matches) :
        /\ call.item_type = "folder" => path_isdir(matches[i].path)
        /\ call.item_type = "file" => ~path_isdir(matches[i].path)

C29_CategoryOfQueryHolds ==
    (filters.parsed /\ filters.category # << >>) =>
        \A i \in 1..Len(matches) :
            path_isdir(matches[i].path)
            \/ EXT_TO_CATEGORY(lower(splitext_ext(matches[i].name)))
                   = category_str(filters.category)

\* C30: no result of the disk scan has a name of the exclusion list or a
\* name that begins with a dot.
C30_NoExcludedName ==
    \A i \in 1..Len(matches) :
        /\ lower(matches[i].name) \notin GLOBAL_EXCLUDES
        /\ ~startswith(matches[i].name, ".")

(***************************************************************************)
(* Properties of the scan of a priority directory, of the score, of the    *)
(* collected matches and of the order of the results.                      *)
(***************************************************************************)
\* C31: an I/O error on one directory entry skips that entry only, the rest
\* of the same priority directory is still evaluated
C31_ErrorSkipsOneEntry ==
    [][("io_error" \in did' /\ "io_error" \notin did) => entries' = Tail(entries)]_vars

\* C32: a name score below 0.3 gives the final score 0 whatever the recency,
\* the boost and the content, and such an entry is never among the matches
C32_BelowRejectIsZero ==
    /\ spc = "phase1" =>
         \A e \in HomeEntries :
             NameScore(filters, call.fuzzy, e.name) < 3000 => ScoreNow(e) = 0
    /\ spc \in {"scan", "collected"} =>
         \A i \in 1..Len(matches) :
             NameScore(filters, call.fuzzy, matches[i].name) >= 3000

\* a recent file whose content holds the query text, with a learned boost or
\* with content search on, has a name score below 0.3 and is left out
C32_Witness ==
    /\ spc = "collected"
    /\ filters.content_search
    /\ \E e \in HomeEntries :
         /\ NameScore(filters, call.fuzzy, e.name) < 3000
         /\ ContentHit(filters, e.path, e.is_dir)
         /\ e.st_mtime > now - 86400
         /\ \A i \in 1..Len(matches) : matches[i].path # e.path

\* C33: the list of collected matches never holds more than the cap
C33_AtMostCapCollected == Len(matches) <= MatchCap

\* the position of path p in the collected matches
Pos(p) == CHOOSE j \in 1..Len(matches) : matches[j].path = p

\* C34: among results of equal score, the one collected first comes first
C34_TiesKeepDiscoveryOrder ==
    (spc = "idle" /\ ~Direct) =>
        \A i, k \in 1..Len(Items) :
            (i < k /\ Items[i].score = Items[k].score) => Pos(Items[i].path) < Pos(Items[k].path)

\* two results of equal score have been returned
C34_Witness ==
    /\ spc = "idle"
    /\ ~Direct
    /\ \E i, k \in 1..Len(Items) :
         /\ i < k
         /\ Items[i].score = Items[k].score
         /\ Pos(Items[i].path) + 1 < Pos(Items[k].path)

\* C35: no match is larger than max_size or newer than max_date
C35_MaximaEnforced ==
    \A i \in 1..Len(matches) : \A e \in HomeEntries :
        e.path = matches[i].path =>
            /\ e.is_dir \/ e.st_size <= filters.max_size
            /\ e.st_mtime <= filters.max_date

\* C36: while is_ready is false, query returns [] without reading the
\* store, whatever rows it holds: Phase 1 yields nothing and the search goes
\* on to the scan of the priority directories
C36_NotReadyFallsToDisk ==
    [][ /\ (~is_ready /\ spc = "phase1" /\ spc' # spc)
           => /\ spc' = "gate"
              /\ matches' = << >>
              /\ seen_paths' = {}
              /\ "store_error" \notin did'
        /\ (~is_ready /\ spc = "gate" /\ spc' # spc)
           => (spc' = "scan" /\ p_dirs' = get_priority_paths)
      ]_vars

\* a search made while the index holds rows and is not ready has scanned
\* the disk and collected matches
C36_Witness ==
    /\ ~is_ready
    /\ files # {}
    /\ "index" \in did
    /\ "scan" \in did
    /\ spc = "collected"
    /\ matches # << >>

\* C37: the rows of the index are files, never directories; Phase 1 of a
\* search for item type "folder" accepts no row, and every match of such a
\* search is an entry of a priority directory
C37_FolderSearchFromDiskOnly ==
    /\ \A r \in files : r.path \in FilePaths /\ ~path_isdir(r.path)
    /\ (call.item_type = "folder" /\ spc = "phase1") => \A r \in files : ~Phase1Accepts(r)
    /\ call.item_type = "folder" =>
           \A i \in 1..Len(matches) : \E e \in HomeEntries : e.path = matches[i].path

\* a folder search on a ready index whose statement selects a row has
\* collected matches
C37_Witness ==
    /\ spc = "collected"
    /\ "index" \in did
    /\ call.item_type = "folder"
    /\ is_ready
    /\ \E r \in files : Matches(r, [SearchSql(filters, call.item_type) EXCEPT !.columns = "all"])
    /\ matches # << >>

\* C40: an existing path is returned by find_path_ranked and by find_path
\* whether it is a file or a directory, whatever item type was asked for
C40_DirectPathIgnoresItemType ==
    (spc = "idle" /\ call.fn # "none" /\ Direct) =>
        result = Returned(call, << Match(clean_target(call.target),
                                         basename(clean_target(call.target)), 10000) >>)

\* a file has been returned to a call for a folder, or a directory to a
\* call for a file
C40_Witness ==
    /\ spc = "idle"
    /\ call.fn = "find_path"
    /\ Direct
    /\ call.item_type = "file"
    /\ path_isdir(clean_target(call.target))
    /\ result.kind = "path"

Range(s) == {s[i] : i \in 1..Len(s)}

\* C39: the prune pass puts a path on its dead list exactly when the path
\* is not on disk at the check, and deletes only rows of the dead list; the
\* other rows stay, with their columns
C39_PruneDeletesOnlyAbsentAtCheck ==
    [][ /\ (pc.worker = "prune_check" /\ paths' # paths)
           => dead_paths' = IF fs[Head(paths)].exists THEN dead_paths
                            ELSE Append(dead_paths, Head(paths))
        /\ (pruned = "running" /\ files' # files)
           => /\ pc.worker = "prune_delete"
              /\ files' \subseteq files
              /\ \A r \in files \ files' : r.path \in Range(dead_paths)
      ]_vars

\* a pass has deleted a row and left a row whose file exists, before any scan
C39_Witness ==
    /\ pruned = "ok"
    /\ \A r \in Roots : scans[r] = 0
    /\ \E p \in FilePaths : ~HasRow(p) /\ ~fs[p].exists /\ \E r \in OldRows : r.path = p
    /\ \E r \in files : fs[r.path].exists

====
